---- MODULE Spec2Model ----
(***************************************************************************)
(* The tagged-node data model of the front end's tree header: the three    *)
(* per-node flag banks and their named accessors, the identifier kind      *)
(* code, the selector-tagged extension data of declarations with its       *)
(* checked accessors, the thunk / clone / context slot reuse of function   *)
(* declarations, the clone-chain walk and the use_template field.          *)
(***************************************************************************)
EXTENDS Integers, FiniteSets, Sequences, TLC

VARIABLES
    nodes,      \* generic nodes: tree code and the three flag banks
    decls,      \* declarations: code, links and DECL_LANG_SPECIFIC
    types,      \* class types: TYPE_LANG_SPECIFIC (use_template)
    walk,       \* the FOR_EACH_CLONE loop: position, cursor, visited clones
    last,       \* the last accessor applied and what it returned
    failed,     \* "none", or the fatal check that ended the run
    ops         \* number of accessor applications so far

vars == <<nodes, decls, types, walk, last, failed, ops>>

\* Number of accessor applications explored in one run.
MaxOps == 2

NULL_TREE == 0

(***************************************************************************)
(* Tree codes.                                                             *)
(***************************************************************************)
DeclCodes ==
    {"VAR_DECL", "FUNCTION_DECL", "FIELD_DECL", "PARM_DECL", "TYPE_DECL",
     "TEMPLATE_DECL", "NAMESPACE_DECL", "USING_DECL", "CONST_DECL",
     "CONCEPT_DECL", "LABEL_DECL"}

TypeCodes == {"RECORD_TYPE", "UNION_TYPE", "ENUMERAL_TYPE", "FUNCTION_TYPE", "METHOD_TYPE"}

OtherCodes == {"IDENTIFIER_NODE", "TREE_LIST", "TEMPLATE_INFO", "CALL_EXPR", "INDIRECT_REF"}

AllCodes == DeclCodes \cup TypeCodes \cup OtherCodes

\* The codes given to the nodes whose flag banks are exercised.
FlagNodeCodes ==
    {"IDENTIFIER_NODE", "TREE_LIST", "TEMPLATE_INFO", "CALL_EXPR",
     "VAR_DECL", "FUNCTION_DECL", "FIELD_DECL", "PARM_DECL", "TYPE_DECL",
     "RECORD_TYPE", "FUNCTION_TYPE"}

NodeIds == {"n1", "n2"}

(***************************************************************************)
(* Language-independent part of a node (tree.h): bits are 0 or 1, a bank   *)
(* is the set of its indices that hold 1.                                  *)
(***************************************************************************)
LNot(b) == IF b = 0 THEN 1 ELSE 0

BitAnd(a, b) == IF a = 1 /\ b = 1 THEN 1 ELSE 0

\* The kinds on which a bank exists.
BankKinds(bank) ==
    CASE bank = "tree" -> AllCodes
      [] bank = "type" -> TypeCodes
      [] bank = "decl" -> DeclCodes

Bank(node, bank) ==
    CASE bank = "tree" -> node.lang_flag
      [] bank = "type" -> node.type_flag
      [] bank = "decl" -> node.decl_flag

WithBank(node, bank, bits) ==
    CASE bank = "tree" -> [node EXCEPT !.lang_flag = bits]
      [] bank = "type" -> [node EXCEPT !.type_flag = bits]
      [] bank = "decl" -> [node EXCEPT !.decl_flag = bits]

NewNode(code) ==
    [code |-> code, lang_flag |-> {}, type_flag |-> {}, decl_flag |-> {}]

(***************************************************************************)
(* The named flag accessors.  Each is the bank and index its macro         *)
(* expands to and the set of codes its explicit tree check lets through    *)
(* (AllCodes when the macro has no check of its own).                      *)
(***************************************************************************)
Acc(name, bank, idx, check) ==
    [name |-> name, bank |-> bank, idx |-> idx, check |-> check]

IDENTIFIER_KIND_BIT_0 == Acc("IDENTIFIER_KIND_BIT_0", "tree", 0, {"IDENTIFIER_NODE"})
IDENTIFIER_KIND_BIT_1 == Acc("IDENTIFIER_KIND_BIT_1", "tree", 1, {"IDENTIFIER_NODE"})
IDENTIFIER_KIND_BIT_2 == Acc("IDENTIFIER_KIND_BIT_2", "tree", 2, {"IDENTIFIER_NODE"})
IDENTIFIER_MARKED == Acc("IDENTIFIER_MARKED", "tree", 4, {"IDENTIFIER_NODE"})
IDENTIFIER_VIRTUAL_P == Acc("IDENTIFIER_VIRTUAL_P", "tree", 5, {"IDENTIFIER_NODE"})

LAMBDA_CAPTURE_EXPLICIT_P == Acc("LAMBDA_CAPTURE_EXPLICIT_P", "tree", 0, {"TREE_LIST"})
ATTR_IS_DEPENDENT == Acc("ATTR_IS_DEPENDENT", "tree", 0, {"TREE_LIST"})
ABI_TAG_IMPLICIT == Acc("ABI_TAG_IMPLICIT", "tree", 0, {"TREE_LIST"})
PARENTHESIZED_LIST_P == Acc("PARENTHESIZED_LIST_P", "tree", 0, {"TREE_LIST"})

TINFO_HAS_ACCESS_ERRORS == Acc("TINFO_HAS_ACCESS_ERRORS", "tree", 0, {"TEMPLATE_INFO"})
TINFO_USED_TEMPLATE_ID == Acc("TINFO_USED_TEMPLATE_ID", "tree", 1, {"TEMPLATE_INFO"})
TI_PENDING_TEMPLATE_FLAG == Acc("TI_PENDING_TEMPLATE_FLAG", "tree", 1, {"TEMPLATE_INFO"})

CP_DECL_THREAD_LOCAL_P == Acc("CP_DECL_THREAD_LOCAL_P", "tree", 0, {"VAR_DECL"})
DECL_INITIALIZED_P == Acc("DECL_INITIALIZED_P", "tree", 1, {"VAR_DECL"})
DECL_TINFO_P == Acc("DECL_TINFO_P", "tree", 4, {"VAR_DECL", "TYPE_DECL"})
DECL_OVERRIDE_P == Acc("DECL_OVERRIDE_P", "tree", 0, AllCodes)
FNDECL_USED_AUTO == Acc("FNDECL_USED_AUTO", "tree", 2, {"FUNCTION_DECL"})
KOENIG_LOOKUP_P == Acc("KOENIG_LOOKUP_P", "tree", 0, {"CALL_EXPR"})
TREE_HAS_CONSTRUCTOR == Acc("TREE_HAS_CONSTRUCTOR", "tree", 4, AllCodes)
TYPE_POLYMORPHIC_P == Acc("TYPE_POLYMORPHIC_P", "tree", 2, AllCodes)
LOOKUP_FOUND_P ==
    Acc("LOOKUP_FOUND_P", "tree", 4,
        {"RECORD_TYPE", "UNION_TYPE", "ENUMERAL_TYPE", "NAMESPACE_DECL"})
TYPE_MARKED_P == Acc("TYPE_MARKED_P", "tree", 6, TypeCodes)

TYPE_DEPENDENT_P == Acc("TYPE_DEPENDENT_P", "type", 0, AllCodes)
TYPE_HAS_LATE_RETURN_TYPE ==
    Acc("TYPE_HAS_LATE_RETURN_TYPE", "type", 2, {"FUNCTION_TYPE", "METHOD_TYPE"})
TYPE_PTRMEMFUNC_FLAG == Acc("TYPE_PTRMEMFUNC_FLAG", "type", 2, {"RECORD_TYPE"})
SET_CLASS_TYPE_P == Acc("SET_CLASS_TYPE_P", "type", 5, {"RECORD_TYPE", "UNION_TYPE"})

DECL_MUTABLE_P == Acc("DECL_MUTABLE_P", "decl", 0, {"FIELD_DECL"})
DECL_LOCAL_DECL_P == Acc("DECL_LOCAL_DECL_P", "decl", 0, {"VAR_DECL", "FUNCTION_DECL"})
DECL_ARRAY_PARAMETER_P == Acc("DECL_ARRAY_PARAMETER_P", "decl", 1, {"PARM_DECL"})
DECL_THIS_EXTERN ==
    Acc("DECL_THIS_EXTERN", "decl", 2, {"VAR_DECL", "FUNCTION_DECL", "PARM_DECL"})
CONSTRAINT_VAR_P == Acc("CONSTRAINT_VAR_P", "decl", 2, {"PARM_DECL"})
DECL_IN_AGGR_P == Acc("DECL_IN_AGGR_P", "decl", 3, AllCodes)
DECL_INVALID_OVERRIDER_P == Acc("DECL_INVALID_OVERRIDER_P", "decl", 4, AllCodes)
DECL_ANON_UNION_VAR_P == Acc("DECL_ANON_UNION_VAR_P", "decl", 4, {"VAR_DECL"})
DECL_THIS_STATIC ==
    Acc("DECL_THIS_STATIC", "decl", 6, {"VAR_DECL", "FUNCTION_DECL", "PARM_DECL"})

IdentifierAccessors ==
    {IDENTIFIER_KIND_BIT_0, IDENTIFIER_KIND_BIT_1, IDENTIFIER_KIND_BIT_2,
     IDENTIFIER_MARKED, IDENTIFIER_VIRTUAL_P}

FlagAccessors ==
    IdentifierAccessors \cup
    {LAMBDA_CAPTURE_EXPLICIT_P, ATTR_IS_DEPENDENT, ABI_TAG_IMPLICIT,
     PARENTHESIZED_LIST_P, TINFO_HAS_ACCESS_ERRORS, TINFO_USED_TEMPLATE_ID,
     TI_PENDING_TEMPLATE_FLAG, CP_DECL_THREAD_LOCAL_P, DECL_INITIALIZED_P,
     DECL_TINFO_P, DECL_OVERRIDE_P, FNDECL_USED_AUTO, KOENIG_LOOKUP_P,
     TREE_HAS_CONSTRUCTOR, TYPE_POLYMORPHIC_P, LOOKUP_FOUND_P, TYPE_MARKED_P,
     TYPE_DEPENDENT_P, TYPE_HAS_LATE_RETURN_TYPE, TYPE_PTRMEMFUNC_FLAG,
     SET_CLASS_TYPE_P, DECL_MUTABLE_P, DECL_LOCAL_DECL_P,
     DECL_ARRAY_PARAMETER_P, DECL_THIS_EXTERN, CONSTRAINT_VAR_P,
     DECL_IN_AGGR_P, DECL_INVALID_OVERRIDER_P, DECL_ANON_UNION_VAR_P,
     DECL_THIS_STATIC}

(***************************************************************************)
(* The usage table of the header: the kinds for which each named flag is   *)
(* documented to be defined.                                               *)
(***************************************************************************)
FlagUsage(a) ==
    CASE a.name \in {"IDENTIFIER_KIND_BIT_0", "IDENTIFIER_KIND_BIT_1",
                     "IDENTIFIER_KIND_BIT_2", "IDENTIFIER_MARKED",
                     "IDENTIFIER_VIRTUAL_P"} -> {"IDENTIFIER_NODE"}
      [] a.name \in {"LAMBDA_CAPTURE_EXPLICIT_P", "ATTR_IS_DEPENDENT",
                     "ABI_TAG_IMPLICIT", "PARENTHESIZED_LIST_P"} -> {"TREE_LIST"}
      [] a.name \in {"TINFO_HAS_ACCESS_ERRORS", "TINFO_USED_TEMPLATE_ID",
                     "TI_PENDING_TEMPLATE_FLAG"} -> {"TEMPLATE_INFO"}
      [] a.name \in {"CP_DECL_THREAD_LOCAL_P", "DECL_INITIALIZED_P",
                     "DECL_ANON_UNION_VAR_P"} -> {"VAR_DECL"}
      [] a.name = "DECL_TINFO_P" -> {"VAR_DECL", "TYPE_DECL"}
      [] a.name \in {"DECL_OVERRIDE_P", "FNDECL_USED_AUTO",
                     "DECL_INVALID_OVERRIDER_P"} -> {"FUNCTION_DECL"}
      [] a.name = "KOENIG_LOOKUP_P" -> {"CALL_EXPR"}
      [] a.name = "TREE_HAS_CONSTRUCTOR" -> {"INDIRECT_REF", "CALL_EXPR", "FIELD_DECL"}
      [] a.name \in {"TYPE_POLYMORPHIC_P", "SET_CLASS_TYPE_P"} ->
            {"RECORD_TYPE", "UNION_TYPE"}
      [] a.name = "LOOKUP_FOUND_P" ->
            {"RECORD_TYPE", "UNION_TYPE", "ENUMERAL_TYPE", "NAMESPACE_DECL"}
      [] a.name \in {"TYPE_MARKED_P", "TYPE_DEPENDENT_P"} -> TypeCodes
      [] a.name = "TYPE_HAS_LATE_RETURN_TYPE" -> {"FUNCTION_TYPE", "METHOD_TYPE"}
      [] a.name = "TYPE_PTRMEMFUNC_FLAG" -> {"RECORD_TYPE"}
      [] a.name = "DECL_MUTABLE_P" -> {"FIELD_DECL"}
      [] a.name = "DECL_LOCAL_DECL_P" -> {"FUNCTION_DECL", "VAR_DECL"}
      [] a.name \in {"DECL_ARRAY_PARAMETER_P", "CONSTRAINT_VAR_P"} -> {"PARM_DECL"}
      [] a.name \in {"DECL_THIS_EXTERN", "DECL_THIS_STATIC"} ->
            {"VAR_DECL", "FUNCTION_DECL", "PARM_DECL"}
      [] a.name = "DECL_IN_AGGR_P" -> DeclCodes

(***************************************************************************)
(* Applying a flag accessor.  In a checked build the accessor's own tree   *)
(* check and the bank's check run before the bit is reached.               *)
(***************************************************************************)
FlagCheckPasses(a, code) == code \in a.check /\ code \in BankKinds(a.bank)

\* The value read through accessor a on node n of store.
FlagRead(store, a, n) == IF a.idx \in Bank(store[n], a.bank) THEN 1 ELSE 0

FlagWrite_into_tree_bank(store, a, n, v) ==
    [store EXCEPT ![n] =
        WithBank(@, "tree",
                 IF v = 1 THEN Bank(@, "tree") \cup {a.idx}
                          ELSE Bank(@, "tree") \ {a.idx})]

FlagWrite(store, a, n, v) ==
    [store EXCEPT ![n] =
        WithBank(@, a.bank,
                 IF v = 1 THEN Bank(@, a.bank) \cup {a.idx}
                          ELSE Bank(@, a.bank) \ {a.idx})]

NoAccess == [op |-> "none", node |-> "none", val |-> 0, ok |-> TRUE]

\* NODE_FLAG (n) = v through the named accessor a.
SetFlag(a, n, v) ==
    /\ failed = "none"
    /\ ops < MaxOps
    /\ ops' = ops + 1
    /\ last' = [op |-> a.name, node |-> n, val |-> v,
                ok |-> FlagCheckPasses(a, nodes[n].code)]
    /\ IF FlagCheckPasses(a, nodes[n].code)
         THEN /\ nodes' = FlagWrite(nodes, a, n, v)
              /\ failed' = failed
         ELSE /\ failed' = "tree_check_failed"
              /\ nodes' = nodes
    /\ UNCHANGED <<decls, types, walk>>

(***************************************************************************)
(* The identifier kind code and its category predicates.                   *)
(***************************************************************************)
KindBit(i, n) ==
    CASE i = 0 -> FlagRead(nodes, IDENTIFIER_KIND_BIT_0, n)
      [] i = 1 -> FlagRead(nodes, IDENTIFIER_KIND_BIT_1, n)
      [] i = 2 -> FlagRead(nodes, IDENTIFIER_KIND_BIT_2, n)

IdentifierKind(n) == 4 * KindBit(2, n) + 2 * KindBit(1, n) + KindBit(0, n)

IDENTIFIER_KEYWORD_P(n) ==
    BitAnd(BitAnd(LNot(KindBit(2, n)), LNot(KindBit(1, n))), KindBit(0, n))

IDENTIFIER_CDTOR_P_ignoring_bit_2(n) == KindBit(1, n)

IDENTIFIER_CDTOR_P(n) == BitAnd(LNot(KindBit(2, n)), KindBit(1, n))

IDENTIFIER_CTOR_P(n) == BitAnd(IDENTIFIER_CDTOR_P(n), LNot(KindBit(0, n)))

IDENTIFIER_DTOR_P(n) == BitAnd(IDENTIFIER_CDTOR_P(n), KindBit(0, n))

IDENTIFIER_ANY_OP_P(n) == KindBit(2, n)

IDENTIFIER_OVL_OP_P(n) == BitAnd(IDENTIFIER_ANY_OP_P(n), LNot(KindBit(1, n)))

IDENTIFIER_ASSIGN_OP_P(n) == BitAnd(IDENTIFIER_OVL_OP_P(n), KindBit(0, n))

IDENTIFIER_CONV_OP_P(n) ==
    BitAnd(BitAnd(IDENTIFIER_ANY_OP_P(n), KindBit(1, n)), LNot(KindBit(0, n)))

(***************************************************************************)
(* Initial states.                                                         *)
(***************************************************************************)
NoDecls == <<>>
NoTypes == <<>>
NoWalk == [pc |-> "idle", fn |-> NULL_TREE, clone |-> NULL_TREE, visited |-> <<>>]

\* Identifier nodes; the kind code was given when the identifier was made.
InitIdent ==
    /\ nodes \in [NodeIds -> {[NewNode("IDENTIFIER_NODE") EXCEPT !.lang_flag = k] :
                                k \in SUBSET {0, 1, 2}}]
    /\ decls = NoDecls
    /\ types = NoTypes
    /\ walk = NoWalk
    /\ last = NoAccess
    /\ failed = "none"
    /\ ops = 0

\* Two freshly built nodes of one of the codes, all flag banks zeroed.
InitFlags ==
    /\ \E c \in FlagNodeCodes : nodes = [n \in NodeIds |-> NewNode(c)]
    /\ decls = NoDecls
    /\ types = NoTypes
    /\ walk = NoWalk
    /\ last = NoAccess
    /\ failed = "none"
    /\ ops = 0

SetIdentifierFlag == \E a \in IdentifierAccessors, n \in NodeIds, v \in {0, 1} : SetFlag(a, n, v)

SetNamedFlag == \E a \in FlagAccessors, n \in NodeIds, v \in {0, 1} : SetFlag(a, n, v)

NextIdent == SetIdentifierFlag

NextFlags == SetNamedFlag

SpecIdent == InitIdent /\ [][NextIdent]_vars

SpecFlags == InitFlags /\ [][NextFlags]_vars

(***************************************************************************)
(* Identifier categories.                                                  *)
(***************************************************************************)
AccNamed(name) == CHOOSE a \in FlagAccessors : a.name = name

\* The category predicates that are true of identifier n.
CategoriesOf(n) ==
    {c \in {"keyword", "ctor", "dtor", "ovl_op", "assign_op", "conv_op"} :
        CASE c = "keyword" -> IDENTIFIER_KEYWORD_P(n) = 1
          [] c = "ctor" -> IDENTIFIER_CTOR_P(n) = 1
          [] c = "dtor" -> IDENTIFIER_DTOR_P(n) = 1
          [] c = "ovl_op" -> IDENTIFIER_OVL_OP_P(n) = 1
          [] c = "assign_op" -> IDENTIFIER_ASSIGN_OP_P(n) = 1
          [] c = "conv_op" -> IDENTIFIER_CONV_OP_P(n) = 1}

\* C1 as stated: for every identifier and every kind code, no two of the six
\* category predicates (keyword, constructor, destructor, overloadable
\* operator, assignment operator, conversion operator) are true together.
C1_SixCategoriesExclusive ==
    \A n \in NodeIds : Cardinality(CategoriesOf(n)) <= 1

\* C1 amended: keyword, constructor, destructor, overloadable operator and
\* conversion operator are pairwise exclusive for every kind code; the
\* assignment-operator predicate is a sub-case of the overloadable-operator
\* predicate (both are true of code 5) and excludes the other four.
C1_CategoriesExclusiveButAssign ==
    \A n \in NodeIds :
        /\ Cardinality(CategoriesOf(n) \ {"assign_op"}) <= 1
        /\ "assign_op" \in CategoriesOf(n) => CategoriesOf(n) = {"ovl_op", "assign_op"}

\* An identifier whose kind bit was just written and that is now an
\* assignment operator name, hence also an overloadable operator name.
C1_Witness ==
    /\ last.op = "IDENTIFIER_KIND_BIT_0"
    /\ last.ok
    /\ last.val = 1
    /\ IdentifierKind(last.node) = 5
    /\ CategoriesOf(last.node) = {"ovl_op", "assign_op"}

(***************************************************************************)
(* Flag accessors and the usage table.                                     *)
(***************************************************************************)
\* C2 as stated: in a checked build a flag accessor applied to a node whose
\* kind is not one of the kinds its flag is documented for fails its tree
\* check.
C2_AccessorRejectsUndocumentedKind ==
    (last.op # "none" /\ nodes[last.node].code \notin FlagUsage(AccNamed(last.op)))
        => (~last.ok /\ failed = "tree_check_failed")

\* C3 as stated: a successful write through one named flag never changes the
\* value read through a differently named flag that is documented for the
\* same node kind.
C3_NoSameKindCollision ==
    [][(ops' = ops + 1 /\ last'.ok) =>
         \A b \in FlagAccessors :
            (/\ b.name # last'.op
             /\ nodes[last'.node].code \in FlagUsage(b)
             /\ nodes[last'.node].code \in FlagUsage(AccNamed(last'.op)))
            => FlagRead(nodes', b, last'.node) = FlagRead(nodes, b, last'.node)]_vars

(***************************************************************************)
(* Declarations and their language-specific extension data                 *)
(* (struct lang_decl: a union of five variants tagged by base.selector).   *)
(* A pointer is a small integer, NULL_TREE is 0.  A variant is a record    *)
(* holding exactly the fields its struct has.                              *)
(***************************************************************************)
DeclIds == {1, 2, 3}

NullLang == [null |-> TRUE]

lang_decl_base(sel) == [null |-> FALSE, selector |-> sel, language |-> 0, use_template |-> 0]

lang_decl_min(sel) == lang_decl_base(sel) @@ [template_info |-> NULL_TREE, access |-> NULL_TREE]

lang_decl_fn ==
    lang_decl_min("lds_fn") @@
        [static_function |-> 0, pure_virtual |-> 0, thunk_p |-> 0, this_thunk_p |-> 0,
         befriending_classes |-> NULL_TREE, context |-> NULL_TREE, u5 |-> 0, u |-> 0]

lang_decl_ns == lang_decl_base("lds_ns") @@ [ns_level |-> NULL_TREE]

lang_decl_parm == lang_decl_base("lds_parm") @@ [parm_level |-> 0, parm_index |-> 0]

lang_decl_decomp == lang_decl_min("lds_decomp") @@ [decomp_base |-> NULL_TREE]

lang_decl(sel) ==
    CASE sel = "lds_min" -> lang_decl_min("lds_min")
      [] sel = "lds_fn" -> lang_decl_fn
      [] sel = "lds_ns" -> lang_decl_ns
      [] sel = "lds_parm" -> lang_decl_parm
      [] sel = "lds_decomp" -> lang_decl_decomp

\* The variant a declaration of each code is given when its extension data
\* is allocated.
SelectorsFor(code) ==
    CASE code = "FUNCTION_DECL" -> {"lds_fn"}
      [] code = "NAMESPACE_DECL" -> {"lds_ns"}
      [] code = "PARM_DECL" -> {"lds_parm"}
      [] code = "VAR_DECL" -> {"lds_min", "lds_decomp"}
      [] code \in {"FIELD_DECL", "CONST_DECL", "TYPE_DECL", "TEMPLATE_DECL",
                   "USING_DECL", "CONCEPT_DECL"} -> {"lds_min"}
      [] OTHER -> {}

NewDecl(code, lang) ==
    [code |-> code, name |-> NULL_TREE, chain |-> NULL_TREE, result |-> NULL_TREE,
     virtual_flag |-> 0, cxx_constructor |-> 0, lang_specific |-> lang]

TREE_CODE(d) == decls[d].code

DECL_LANG_SPECIFIC(d) == decls[d].lang_specific

DECL_TEMPLATE_RESULT(d) == decls[d].result

DECL_NAME(d) == decls[d].name

DECL_CHAIN(d) == decls[d].chain

DECL_VIRTUAL_P(d) == decls[d].virtual_flag = 1

DECL_CXX_CONSTRUCTOR_P(d) == decls[d].cxx_constructor = 1

VAR_P(d) == TREE_CODE(d) = "VAR_DECL"

LANG_DECL_HAS_MIN(d) ==
    \/ TREE_CODE(d) \in {"VAR_DECL", "FUNCTION_DECL"}
    \/ TREE_CODE(d) = "FIELD_DECL"
    \/ TREE_CODE(d) = "CONST_DECL"
    \/ TREE_CODE(d) = "TYPE_DECL"
    \/ TREE_CODE(d) = "TEMPLATE_DECL"
    \/ TREE_CODE(d) = "USING_DECL"
    \/ TREE_CODE(d) = "CONCEPT_DECL"

STRIP_TEMPLATE(d) == IF TREE_CODE(d) = "TEMPLATE_DECL" THEN DECL_TEMPLATE_RESULT(d) ELSE d

DECL_FUNCTION_TEMPLATE_P(d) ==
    /\ TREE_CODE(d) = "TEMPLATE_DECL"
    /\ DECL_TEMPLATE_RESULT(d) # NULL_TREE
    /\ TREE_CODE(DECL_TEMPLATE_RESULT(d)) = "FUNCTION_DECL"

DECL_DECLARES_FUNCTION_P(d) == TREE_CODE(d) = "FUNCTION_DECL" \/ DECL_FUNCTION_TEMPLATE_P(d)

\* lt->u.base.selector for the extension data of declaration o; reading it
\* through a null pointer (or a null declaration) is undefined.
SelectorOf(o) ==
    IF o = NULL_TREE THEN "undefined"
    ELSE IF DECL_LANG_SPECIFIC(o).null THEN "undefined"
    ELSE DECL_LANG_SPECIFIC(o).selector

(***************************************************************************)
(* The checked LANG_DECL_*_CHECK macros.  Each yields "ok" when it hands   *)
(* back the variant, "lang_check_failed" when it aborts, and "undefined"   *)
(* when it (or the field access that follows) dereferences a null pointer. *)
(***************************************************************************)
LANG_DECL_MIN_CHECK(d) ==
    IF ~LANG_DECL_HAS_MIN(d) THEN "lang_check_failed"
    ELSE IF DECL_LANG_SPECIFIC(d).null THEN "undefined"
    ELSE "ok"

LANG_DECL_FN_CHECK(d) ==
    IF STRIP_TEMPLATE(d) = NULL_TREE THEN "undefined"
    ELSE IF ~DECL_DECLARES_FUNCTION_P(d) THEN "lang_check_failed"
    ELSE IF SelectorOf(STRIP_TEMPLATE(d)) = "undefined" THEN "undefined"
    ELSE IF SelectorOf(STRIP_TEMPLATE(d)) # "lds_fn" THEN "lang_check_failed"
    ELSE "ok"

LANG_DECL_NS_CHECK(d) ==
    IF TREE_CODE(d) # "NAMESPACE_DECL" THEN "lang_check_failed"
    ELSE IF SelectorOf(d) = "undefined" THEN "undefined"
    ELSE IF SelectorOf(d) # "lds_ns" THEN "lang_check_failed"
    ELSE "ok"

LANG_DECL_PARM_CHECK(d) ==
    IF TREE_CODE(d) # "PARM_DECL" THEN "lang_check_failed"
    ELSE IF SelectorOf(d) = "undefined" THEN "undefined"
    ELSE IF SelectorOf(d) # "lds_parm" THEN "lang_check_failed"
    ELSE "ok"

LANG_DECL_DECOMP_CHECK_kind_only(d) ==
    IF ~VAR_P(d) THEN "lang_check_failed"
    ELSE IF SelectorOf(d) = "undefined" THEN "undefined"
    ELSE "ok"

LANG_DECL_DECOMP_CHECK(d) ==
    IF ~VAR_P(d) THEN "lang_check_failed"
    ELSE IF SelectorOf(d) = "undefined" THEN "undefined"
    ELSE IF SelectorOf(d) # "lds_decomp" THEN "lang_check_failed"
    ELSE "ok"

\* template_info_decl_check: a tree check on the code alone.
TEMPLATE_INFO_DECL_CHECK(d) ==
    IF TREE_CODE(d) \in {"VAR_DECL", "FUNCTION_DECL", "FIELD_DECL", "TYPE_DECL",
                         "CONCEPT_DECL", "TEMPLATE_DECL"}
    THEN (IF DECL_LANG_SPECIFIC(d).null THEN "undefined" ELSE "ok")
    ELSE "tree_check_failed"

FUNCTION_DECL_CHECK(d) ==
    IF TREE_CODE(d) = "FUNCTION_DECL"
    THEN (IF DECL_LANG_SPECIFIC(d).null THEN "undefined" ELSE "ok")
    ELSE "tree_check_failed"

DECL_THUNK_P(d) ==
    /\ TREE_CODE(d) = "FUNCTION_DECL"
    /\ ~DECL_LANG_SPECIFIC(d).null
    /\ DECL_LANG_SPECIFIC(d).thunk_p = 1

THUNK_FUNCTION_CHECK(d) ==
    IF /\ TREE_CODE(d) = "FUNCTION_DECL"
       /\ ~DECL_LANG_SPECIFIC(d).null
       /\ DECL_LANG_SPECIFIC(d).thunk_p = 1
    THEN "ok"
    ELSE "tree_check_failed"

(***************************************************************************)
(* Named accessors of extension-data fields: the check the macro runs,     *)
(* the struct field it names and the variant that field belongs to.        *)
(***************************************************************************)
FieldAcc(name, check, field) == [name |-> name, check |-> check, field |-> field]

DECL_ACCESS == FieldAcc("DECL_ACCESS", "LANG_DECL_MIN_CHECK", "access")
DECL_DISCRIMINATOR == FieldAcc("DECL_DISCRIMINATOR", "LANG_DECL_MIN_CHECK", "access")
DECL_TEMPLATE_INFO == FieldAcc("DECL_TEMPLATE_INFO", "TEMPLATE_INFO_DECL_CHECK", "template_info")
DECL_PURE_VIRTUAL_P == FieldAcc("DECL_PURE_VIRTUAL_P", "LANG_DECL_FN_CHECK", "pure_virtual")
DECL_BEFRIENDING_CLASSES ==
    FieldAcc("DECL_BEFRIENDING_CLASSES", "LANG_DECL_FN_CHECK", "befriending_classes")
NAMESPACE_LEVEL == FieldAcc("NAMESPACE_LEVEL", "LANG_DECL_NS_CHECK", "ns_level")
DECL_PARM_INDEX == FieldAcc("DECL_PARM_INDEX", "LANG_DECL_PARM_CHECK", "parm_index")
DECL_PARM_LEVEL == FieldAcc("DECL_PARM_LEVEL", "LANG_DECL_PARM_CHECK", "parm_level")
DECL_DECOMP_BASE == FieldAcc("DECL_DECOMP_BASE", "LANG_DECL_DECOMP_CHECK", "decomp_base")

THUNK_FIXED_OFFSET == FieldAcc("THUNK_FIXED_OFFSET", "THUNK_FUNCTION_CHECK", "u5")
THUNK_VIRTUAL_OFFSET == FieldAcc("THUNK_VIRTUAL_OFFSET", "FUNCTION_DECL_CHECK", "access")
THUNK_ALIAS == FieldAcc("THUNK_ALIAS", "FUNCTION_DECL_CHECK", "template_info")
DECL_CLONED_FUNCTION == FieldAcc("DECL_CLONED_FUNCTION", "FUNCTION_DECL_CHECK", "u5")
DECL_STATIC_FUNCTION_P ==
    FieldAcc("DECL_STATIC_FUNCTION_P", "LANG_DECL_FN_CHECK", "static_function")
DECL_PENDING_INLINE_INFO == FieldAcc("DECL_PENDING_INLINE_INFO", "LANG_DECL_FN_CHECK", "u")
THUNK_TARGET_in_context == FieldAcc("THUNK_TARGET", "LANG_DECL_FN_CHECK", "context")
THUNK_TARGET == FieldAcc("THUNK_TARGET", "LANG_DECL_FN_CHECK", "befriending_classes")

SET_DECL_THUNKS == FieldAcc("SET_DECL_THUNKS", "LANG_DECL_FN_CHECK", "context")
SET_DECL_INHERITED_CTOR == FieldAcc("SET_DECL_INHERITED_CTOR", "LANG_DECL_FN_CHECK", "context")
SET_DECL_FRIEND_CONTEXT == FieldAcc("SET_DECL_FRIEND_CONTEXT", "LANG_DECL_FN_CHECK", "context")

VariantAccessors ==
    {DECL_ACCESS, DECL_DISCRIMINATOR, DECL_TEMPLATE_INFO, DECL_PURE_VIRTUAL_P,
     DECL_BEFRIENDING_CLASSES, NAMESPACE_LEVEL, DECL_PARM_INDEX, DECL_PARM_LEVEL,
     DECL_DECOMP_BASE}

ThunkAccessors ==
    {THUNK_FIXED_OFFSET, THUNK_VIRTUAL_OFFSET, THUNK_ALIAS, DECL_CLONED_FUNCTION,
     THUNK_TARGET, DECL_BEFRIENDING_CLASSES}

ContextSetters == {SET_DECL_THUNKS, SET_DECL_INHERITED_CTOR, SET_DECL_FRIEND_CONTEXT}

FieldAccessors ==
    VariantAccessors \cup ThunkAccessors \cup ContextSetters
        \cup {DECL_PENDING_INLINE_INFO, DECL_STATIC_FUNCTION_P}

\* The struct (variant) each field is a member of; the min fields are the
\* common prefix of lang_decl_fn and lang_decl_decomp.
VariantsHolding(field) ==
    CASE field \in {"template_info", "access"} -> {"lds_min", "lds_fn", "lds_decomp"}
      [] field \in {"static_function", "pure_virtual", "thunk_p", "this_thunk_p", "befriending_classes",
                    "context", "u5", "u"} -> {"lds_fn"}
      [] field = "ns_level" -> {"lds_ns"}
      [] field \in {"parm_level", "parm_index"} -> {"lds_parm"}
      [] field = "decomp_base" -> {"lds_decomp"}

\* The declaration whose extension data the accessor reaches.
Owner(a, d) == IF a.check = "LANG_DECL_FN_CHECK" THEN STRIP_TEMPLATE(d) ELSE d

CheckStatus(a, d) ==
    CASE a.check = "LANG_DECL_MIN_CHECK" -> LANG_DECL_MIN_CHECK(d)
      [] a.check = "LANG_DECL_FN_CHECK" -> LANG_DECL_FN_CHECK(d)
      [] a.check = "LANG_DECL_NS_CHECK" -> LANG_DECL_NS_CHECK(d)
      [] a.check = "LANG_DECL_PARM_CHECK" -> LANG_DECL_PARM_CHECK(d)
      [] a.check = "LANG_DECL_DECOMP_CHECK" -> LANG_DECL_DECOMP_CHECK(d)
      [] a.check = "TEMPLATE_INFO_DECL_CHECK" -> TEMPLATE_INFO_DECL_CHECK(d)
      [] a.check = "FUNCTION_DECL_CHECK" -> FUNCTION_DECL_CHECK(d)
      [] a.check = "THUNK_FUNCTION_CHECK" -> THUNK_FUNCTION_CHECK(d)

\* A value read from storage that is not the named field.
Garbage == -1

FieldRead(lt, field) == IF field \in DOMAIN lt THEN lt[field] ELSE Garbage

FieldWrite(store, o, field, v) ==
    IF field \in DOMAIN store[o].lang_specific
    THEN [store EXCEPT ![o].lang_specific[field] = v]
    ELSE store

NoDeclAccess == [op |-> "none", node |-> NULL_TREE, rw |-> "none", status |-> "none", val |-> 0]

\* One use of an accessor macro on declaration d, as an rvalue ("r") or as
\* the target of an assignment of v ("w").  A failed check ends the run.
AccessField(a, d, rw, v) ==
    /\ failed = "none"
    /\ LET st == CheckStatus(a, d)
           o == Owner(a, d)
       IN /\ last' = [op |-> a.name, node |-> d, rw |-> rw, status |-> st,
                      val |-> IF st # "ok" THEN 0
                              ELSE IF rw = "r" THEN FieldRead(decls[o].lang_specific, a.field)
                              ELSE v]
          /\ failed' = IF st = "ok" THEN "none" ELSE st
          /\ decls' = IF st = "ok" /\ rw = "w" THEN FieldWrite(decls, o, a.field, v) ELSE decls
    /\ UNCHANGED <<nodes, types, walk, ops>>

(***************************************************************************)
(* A declaration of any code with the variant its code is given (or with   *)
(* no extension data yet); declaration 2 is a function declaration and     *)
(* declaration 3 a type declaration, each a possible result of a template. *)
(***************************************************************************)
NoNodes == <<>>

InitDecl ==
    /\ \E c \in DeclCodes :
       \E lang \in {NullLang} \cup {lang_decl(sel) : sel \in SelectorsFor(c)} :
       \E r \in (IF c = "TEMPLATE_DECL" THEN {NULL_TREE, 2, 3} ELSE {NULL_TREE}) :
          decls = [d \in DeclIds |->
                     CASE d = 1 -> [NewDecl(c, lang) EXCEPT !.result = r]
                       [] d = 2 -> NewDecl("FUNCTION_DECL", lang_decl("lds_fn"))
                       [] d = 3 -> NewDecl("TYPE_DECL", lang_decl("lds_min"))]
    /\ nodes = NoNodes
    /\ types = NoTypes
    /\ walk = NoWalk
    /\ last = NoDeclAccess
    /\ failed = "none"
    /\ ops = 0

ReadVariantField == \E a \in VariantAccessors : AccessField(a, 1, "r", 0)

WriteVariantField == \E a \in VariantAccessors, v \in {0, 1} : AccessField(a, 1, "w", v)

NextDecl == ReadVariantField \/ WriteVariantField

SpecDecl == InitDecl /\ [][NextDecl]_vars

\* The variant (selector) and the declaration kinds each LANG_DECL_*_CHECK
\* guards.
VariantOf(check) ==
    CASE check = "LANG_DECL_MIN_CHECK" -> "lds_min"
      [] check = "LANG_DECL_FN_CHECK" -> "lds_fn"
      [] check = "LANG_DECL_NS_CHECK" -> "lds_ns"
      [] check = "LANG_DECL_PARM_CHECK" -> "lds_parm"
      [] check = "LANG_DECL_DECOMP_CHECK" -> "lds_decomp"

LangDeclChecks ==
    {"LANG_DECL_MIN_CHECK", "LANG_DECL_FN_CHECK", "LANG_DECL_NS_CHECK",
     "LANG_DECL_PARM_CHECK", "LANG_DECL_DECOMP_CHECK"}

KindMatches(check, d) ==
    CASE check = "LANG_DECL_MIN_CHECK" -> LANG_DECL_HAS_MIN(d)
      [] check = "LANG_DECL_FN_CHECK" -> DECL_DECLARES_FUNCTION_P(d)
      [] check = "LANG_DECL_NS_CHECK" -> TREE_CODE(d) = "NAMESPACE_DECL"
      [] check = "LANG_DECL_PARM_CHECK" -> TREE_CODE(d) = "PARM_DECL"
      [] check = "LANG_DECL_DECOMP_CHECK" -> VAR_P(d)

LastAcc == CHOOSE a \in FieldAccessors : a.name = last.op

\* C4 as stated: in a checked build an access through a LANG_DECL_*_CHECK
\* accessor succeeds only if the declaration's kind and the selector of its
\* extension data both match the variant the accessor names.
C4_CheckNeedsKindAndSelector ==
    (last.op # "none" /\ LastAcc.check \in LangDeclChecks /\ last.status = "ok")
        => /\ KindMatches(LastAcc.check, last.node)
           /\ SelectorOf(Owner(LastAcc, last.node)) = VariantOf(LastAcc.check)

\* C4 amended: the Fn, Ns, Parm and Decomp checks succeed only if kind and
\* selector both match; the Min check succeeds on every declaration kind
\* that has the min fields, whatever the selector, and the field it hands
\* back is then a member of the variant the data really holds.
C4_CheckNeedsKindAndSelectorExceptMin ==
    /\ (last.op # "none" /\ LastAcc.check \in LangDeclChecks /\ last.status = "ok")
          => /\ KindMatches(LastAcc.check, last.node)
             /\ LastAcc.check # "LANG_DECL_MIN_CHECK"
                  => SelectorOf(Owner(LastAcc, last.node)) = VariantOf(LastAcc.check)
             /\ SelectorOf(Owner(LastAcc, last.node)) \in VariantsHolding(LastAcc.field)
    /\ (/\ last.op # "none"
        /\ LastAcc.check \in LangDeclChecks \ {"LANG_DECL_MIN_CHECK"}
        /\ SelectorOf(Owner(LastAcc, last.node)) # "undefined"
        /\ \/ ~KindMatches(LastAcc.check, last.node)
           \/ SelectorOf(Owner(LastAcc, last.node)) # VariantOf(LastAcc.check))
          => /\ last.status = "lang_check_failed"
             /\ failed = "lang_check_failed"
             /\ last.val = 0

\* A structured-binding variable whose DECL_DECOMP_BASE was just written.
C4_Witness ==
    /\ last.op = "DECL_DECOMP_BASE"
    /\ last.rw = "w"
    /\ last.status = "ok"
    /\ last.val = 1
    /\ DECL_LANG_SPECIFIC(1).selector = "lds_decomp"
    /\ DECL_LANG_SPECIFIC(1).decomp_base = 1

(***************************************************************************)
(* Function declarations: thunks, and the readers of the shared context    *)
(* slot.                                                                   *)
(***************************************************************************)
DECL_CONSTRUCTOR_P_of_the_template(d) == DECL_CXX_CONSTRUCTOR_P(d)

DECL_CONSTRUCTOR_P(d) == DECL_CXX_CONSTRUCTOR_P(STRIP_TEMPLATE(d))

\* LANG_DECL_FN_CHECK (NODE)->field as an rvalue, on a declaration that
\* passes the check.
FnField(d, field) == FieldRead(DECL_LANG_SPECIFIC(STRIP_TEMPLATE(d)), field)

DECL_THUNKS(d) == IF DECL_VIRTUAL_P(d) THEN FnField(d, "context") ELSE NULL_TREE

DECL_INHERITED_CTOR(d) ==
    IF DECL_DECLARES_FUNCTION_P(d) /\ DECL_CONSTRUCTOR_P(d)
    THEN FnField(d, "context")
    ELSE NULL_TREE

DECL_FRIEND_CONTEXT_any_non_constructor(d) ==
    IF DECL_DECLARES_FUNCTION_P(d) /\ ~DECL_CONSTRUCTOR_P(d)
    THEN FnField(d, "context")
    ELSE NULL_TREE

DECL_FRIEND_CONTEXT(d) ==
    IF DECL_DECLARES_FUNCTION_P(d) /\ ~DECL_VIRTUAL_P(d) /\ ~DECL_CONSTRUCTOR_P(d)
    THEN FnField(d, "context")
    ELSE NULL_TREE

ContextReaders == {"DECL_THUNKS", "DECL_INHERITED_CTOR", "DECL_FRIEND_CONTEXT"}

ContextRead(reader, d) ==
    CASE reader = "DECL_THUNKS" -> DECL_THUNKS(d)
      [] reader = "DECL_INHERITED_CTOR" -> DECL_INHERITED_CTOR(d)
      [] reader = "DECL_FRIEND_CONTEXT" -> DECL_FRIEND_CONTEXT(d)

\* SET_DECL_THUNK_P (NODE, THIS_ADJUSTING): two checked stores.
SET_DECL_THUNK_P(d, this_adjusting) ==
    /\ failed = "none"
    /\ LET st == LANG_DECL_FN_CHECK(d)
           o == STRIP_TEMPLATE(d)
       IN /\ last' = [op |-> "SET_DECL_THUNK_P", node |-> d, rw |-> "w", status |-> st,
                      val |-> IF st = "ok" THEN this_adjusting ELSE 0]
          /\ failed' = IF st = "ok" THEN "none" ELSE st
          /\ decls' = IF st = "ok"
                      THEN FieldWrite(FieldWrite(decls, o, "thunk_p", 1),
                                      o, "this_thunk_p", this_adjusting)
                      ELSE decls
    /\ UNCHANGED <<nodes, types, walk, ops>>

\* Values stored through the accessors: a null, a pointer to declaration 2,
\* or the same bits taken as a byte offset.
ThunkVals == {0, 2}

\* A function declaration with its lang_decl_fn data, not yet a thunk; a
\* constructor is never virtual.
InitThunk ==
    /\ \E shape \in {<<0, 0>>, <<1, 0>>, <<0, 1>>} :
          decls = [d \in DeclIds |->
                     CASE d = 1 -> [NewDecl("FUNCTION_DECL", lang_decl("lds_fn"))
                                       EXCEPT !.virtual_flag = shape[1],
                                              !.cxx_constructor = shape[2]]
                       [] d = 2 -> NewDecl("FUNCTION_DECL", lang_decl("lds_fn"))
                       [] d = 3 -> NewDecl("TYPE_DECL", lang_decl("lds_min"))]
    /\ nodes = NoNodes
    /\ types = NoTypes
    /\ walk = NoWalk
    /\ last = NoDeclAccess
    /\ failed = "none"
    /\ ops = 0

MakeThunk == \E t \in {0, 1} : SET_DECL_THUNK_P(1, t)

ReadThunkField == \E a \in ThunkAccessors : AccessField(a, 1, "r", 0)

WriteThunkField == \E a \in ThunkAccessors, v \in ThunkVals : AccessField(a, 1, "w", v)

SetContext == \E a \in ContextSetters, v \in ThunkVals : AccessField(a, 1, "w", v)

NextThunk == MakeThunk \/ ReadThunkField \/ WriteThunkField \/ SetContext

SpecThunk == InitThunk /\ [][NextThunk]_vars

\* C5 as stated: on a thunk (selector Fn, thunk_p set) the checked accessor
\* DECL_CLONED_FUNCTION rejects the access.
C5_ClonedFunctionRejectedOnThunk ==
    (last.op = "DECL_CLONED_FUNCTION" /\ DECL_THUNK_P(last.node)) => last.status # "ok"

\* C6 as stated: on a thunk the value written as THUNK_TARGET is the value
\* held by the context field (and u5 holds the fixed offset).
C6_ThunkTargetInContext ==
    /\ (last.op = "THUNK_TARGET" /\ last.status = "ok" /\ DECL_THUNK_P(last.node))
          => last.val = FnField(last.node, "context")
    /\ (last.op = "THUNK_FIXED_OFFSET" /\ last.status = "ok")
          => (DECL_THUNK_P(last.node) /\ last.val = FnField(last.node, "u5"))

\* C6 amended: on a thunk the u5 slot holds the fixed offset, and the value
\* written or read as THUNK_TARGET is the value held by the
\* befriending_classes field; THUNK_FIXED_OFFSET is reachable on thunks only.
C6_ThunkTargetInBefriendingClasses ==
    /\ (last.op = "THUNK_TARGET" /\ last.status = "ok" /\ DECL_THUNK_P(last.node))
          => last.val = FnField(last.node, "befriending_classes")
    /\ (last.op = "THUNK_FIXED_OFFSET" /\ last.status = "ok")
          => (DECL_THUNK_P(last.node) /\ last.val = FnField(last.node, "u5"))

\* A thunk whose target was just stored: befriending_classes has it, context
\* is still null.
C6_Witness ==
    /\ last.op = "THUNK_TARGET"
    /\ last.rw = "w"
    /\ last.status = "ok"
    /\ last.val = 2
    /\ DECL_THUNK_P(1)
    /\ FnField(1, "befriending_classes") = 2
    /\ FnField(1, "context") = NULL_TREE

ReadersReturning(d) == {r \in ContextReaders : ContextRead(r, d) # NULL_TREE}

ReaderOfSetter(name) ==
    CASE name = "SET_DECL_THUNKS" -> "DECL_THUNKS"
      [] name = "SET_DECL_INHERITED_CTOR" -> "DECL_INHERITED_CTOR"
      [] name = "SET_DECL_FRIEND_CONTEXT" -> "DECL_FRIEND_CONTEXT"

SetterNames == {a.name : a \in ContextSetters}

ReaderOfShape(d) ==
    IF DECL_VIRTUAL_P(d) THEN "DECL_THUNKS"
    ELSE IF DECL_CONSTRUCTOR_P(d) THEN "DECL_INHERITED_CTOR"
    ELSE "DECL_FRIEND_CONTEXT"

ctor_identifier == 11
dtor_identifier == 12
complete_ctor_identifier == 13
base_dtor_identifier == 14
ordinary_identifier == 15

IdentifierIds ==
    {ctor_identifier, dtor_identifier, complete_ctor_identifier, base_dtor_identifier,
     ordinary_identifier}

KindBitsOf(id) ==
    CASE id \in {ctor_identifier, complete_ctor_identifier} -> {1}
      [] id \in {dtor_identifier, base_dtor_identifier} -> {0, 1}
      [] OTHER -> {}

PredefinedIdentifiers ==
    [id \in IdentifierIds |->
        [NewNode("IDENTIFIER_NODE") EXCEPT !.lang_flag = KindBitsOf(id)]]

DECL_MAYBE_IN_CHARGE_CONSTRUCTOR_P(d) == DECL_NAME(d) = ctor_identifier

DECL_MAYBE_IN_CHARGE_DESTRUCTOR_P(d) == DECL_NAME(d) = dtor_identifier

DECL_MAYBE_IN_CHARGE_CDTOR_P(d) ==
    DECL_MAYBE_IN_CHARGE_CONSTRUCTOR_P(d) \/ DECL_MAYBE_IN_CHARGE_DESTRUCTOR_P(d)

DECL_CLONED_FUNCTION_P_of_any_cdtor_name(d) ==
    /\ DECL_NAME(d) # NULL_TREE
    /\ IDENTIFIER_CDTOR_P(DECL_NAME(d)) = 1

DECL_CLONED_FUNCTION_P(d) ==
    /\ DECL_NAME(d) # NULL_TREE
    /\ IDENTIFIER_CDTOR_P(DECL_NAME(d)) = 1
    /\ ~DECL_MAYBE_IN_CHARGE_CDTOR_P(d)

\* Length of the declaration chain.
ChainLen == 4

ChainIds == 1 .. ChainLen

\* The if-guard of FOR_EACH_CLONE: the loop is entered only for a
\* maybe-in-charge constructor or destructor.
FOR_EACH_CLONE_enters_any_function(fn) == TREE_CODE(fn) = "FUNCTION_DECL"

FOR_EACH_CLONE_enters(fn) ==
    TREE_CODE(fn) = "FUNCTION_DECL" /\ DECL_MAYBE_IN_CHARGE_CDTOR_P(fn)

\* FOR_EACH_CLONE (clone, fn) starts: the guard, then CLONE = DECL_CHAIN (FN).
ForEachCloneEnter ==
    /\ failed = "none"
    /\ walk.pc = "idle"
    /\ \E fn \in DOMAIN decls :
          IF FOR_EACH_CLONE_enters(fn)
          THEN walk' = [pc |-> "test", fn |-> fn, clone |-> DECL_CHAIN(fn), visited |-> <<>>]
          ELSE walk' = [pc |-> "done", fn |-> fn, clone |-> NULL_TREE, visited |-> <<>>]
    /\ UNCHANGED <<nodes, decls, types, last, failed, ops>>

\* The loop condition: CLONE && DECL_CLONED_FUNCTION_P (CLONE).
ForEachCloneTest ==
    /\ failed = "none"
    /\ walk.pc = "test"
    /\ IF walk.clone # NULL_TREE /\ DECL_CLONED_FUNCTION_P(walk.clone)
       THEN walk' = [walk EXCEPT !.pc = "body"]
       ELSE walk' = [walk EXCEPT !.pc = "done"]
    /\ UNCHANGED <<nodes, decls, types, last, failed, ops>>

\* The loop body sees CLONE, then CLONE = DECL_CHAIN (CLONE).
ForEachCloneBody ==
    /\ failed = "none"
    /\ walk.pc = "body"
    /\ walk' = [walk EXCEPT !.pc = "test",
                            !.visited = Append(@, walk.clone),
                            !.clone = DECL_CHAIN(walk.clone)]
    /\ UNCHANGED <<nodes, decls, types, last, failed, ops>>

\* What a member of the chain can be: a function declaration of any name
\* (or none yet), or a member template named as a constructor or ordinarily.
ChainMembers ==
    {<<"FUNCTION_DECL", n>> : n \in IdentifierIds \cup {NULL_TREE}}
        \cup {<<"TEMPLATE_DECL", n>> : n \in {ctor_identifier, ordinary_identifier}}

InitClone ==
    /\ nodes = PredefinedIdentifiers
    /\ \E m \in [ChainIds -> ChainMembers] :
          decls = [d \in ChainIds |->
                     [NewDecl(m[d][1], lang_decl(CHOOSE sel \in SelectorsFor(m[d][1]) : TRUE))
                         EXCEPT !.name = m[d][2],
                                !.chain = IF d = ChainLen THEN NULL_TREE ELSE d + 1]]
    /\ types = NoTypes
    /\ walk = NoWalk
    /\ last = NoDeclAccess
    /\ failed = "none"
    /\ ops = 0

NextClone == ForEachCloneEnter \/ ForEachCloneTest \/ ForEachCloneBody

SpecClone == InitClone /\ [][NextClone]_vars

RECURSIVE ChainFrom(_)
ChainFrom(d) == IF d = NULL_TREE THEN <<>> ELSE <<d>> \o ChainFrom(DECL_CHAIN(d))

\* The declarations that follow fn on its chain, in chain order.
SuccessorsOf(fn) == ChainFrom(DECL_CHAIN(fn))

IsMaximalCloneRun(run, succ) ==
    /\ Len(run) <= Len(succ)
    /\ run = SubSeq(succ, 1, Len(run))
    /\ \A i \in 1 .. Len(run) : DECL_CLONED_FUNCTION_P(run[i])
    /\ Len(run) < Len(succ) => ~DECL_CLONED_FUNCTION_P(succ[Len(run) + 1])

\* C8: when FOR_EACH_CLONE (clone, fn) is over it has visited, in chain
\* order, exactly the maximal run of declarations right after fn for which
\* DECL_CLONED_FUNCTION_P holds (possibly none) if fn is a FUNCTION_DECL
\* named ctor_identifier or dtor_identifier, and nothing otherwise; while it
\* runs, what it has visited is a run of clones right after fn.
C8_ForEachCloneVisitsMaximalRun ==
    /\ walk.pc \in {"test", "body"} =>
          /\ Len(walk.visited) <= Len(SuccessorsOf(walk.fn))
          /\ walk.visited = SubSeq(SuccessorsOf(walk.fn), 1, Len(walk.visited))
          /\ \A i \in 1 .. Len(walk.visited) : DECL_CLONED_FUNCTION_P(walk.visited[i])
    /\ walk.pc = "done" =>
          IF /\ decls[walk.fn].code = "FUNCTION_DECL"
             /\ decls[walk.fn].name \in {ctor_identifier, dtor_identifier}
          THEN IsMaximalCloneRun(walk.visited, SuccessorsOf(walk.fn))
          ELSE walk.visited = <<>>

\* A finished walk from a constructor that visited its two clones and
\* stopped at a third successor that is not a clone.
C8_Witness ==
    /\ walk.pc = "done"
    /\ walk.fn = 1
    /\ decls[1].name = ctor_identifier
    /\ walk.visited = <<2, 3>>
    /\ walk.clone = 4
    /\ ~DECL_CLONED_FUNCTION_P(4)

(***************************************************************************)
(* use_template: a two-bit field of lang_decl_base and of the class-type   *)
(* data, with its classification predicates and setters.                   *)
(***************************************************************************)
\* unsigned use_template : 2
UseTemplateWidth == 2

BitField(v, width) == v % (2 ^ width)

TypeIds == {1, 2}

NewClassType(code) == [code |-> code, lang_specific |-> [null |-> FALSE, use_template |-> 0]]

LANG_TYPE_CLASS_CHECK(t) == types[t].lang_specific

DECL_USE_TEMPLATE(d) == DECL_LANG_SPECIFIC(d).use_template

CLASSTYPE_USE_TEMPLATE(t) == LANG_TYPE_CLASS_CHECK(t).use_template

DECL_TEMPLATE_INSTANTIATION_implicit_only(d) == DECL_USE_TEMPLATE(d) = 1

DECL_TEMPLATE_INSTANTIATION(d) == (DECL_USE_TEMPLATE(d) % 2) # 0

CLASSTYPE_TEMPLATE_INSTANTIATION(t) == (CLASSTYPE_USE_TEMPLATE(t) % 2) # 0

DECL_TEMPLATE_SPECIALIZATION(d) == DECL_USE_TEMPLATE(d) = 2

CLASSTYPE_TEMPLATE_SPECIALIZATION(t) == CLASSTYPE_USE_TEMPLATE(t) = 2

DECL_IMPLICIT_INSTANTIATION(d) == DECL_USE_TEMPLATE(d) = 1

CLASSTYPE_IMPLICIT_INSTANTIATION(t) == CLASSTYPE_USE_TEMPLATE(t) = 1

DECL_EXPLICIT_INSTANTIATION(d) == DECL_USE_TEMPLATE(d) = 3

CLASSTYPE_EXPLICIT_INSTANTIATION(t) == CLASSTYPE_USE_TEMPLATE(t) = 3

\* The setter macros: the node class they apply to and the value they assign.
UseTemplateSetter(name, on, value) == [name |-> name, on |-> on, value |-> value]

SET_DECL_TEMPLATE_SPECIALIZATION ==
    UseTemplateSetter("SET_DECL_TEMPLATE_SPECIALIZATION", "decl", 2)
SET_CLASSTYPE_TEMPLATE_SPECIALIZATION ==
    UseTemplateSetter("SET_CLASSTYPE_TEMPLATE_SPECIALIZATION", "type", 2)
SET_DECL_IMPLICIT_INSTANTIATION ==
    UseTemplateSetter("SET_DECL_IMPLICIT_INSTANTIATION", "decl", 1)
SET_CLASSTYPE_IMPLICIT_INSTANTIATION ==
    UseTemplateSetter("SET_CLASSTYPE_IMPLICIT_INSTANTIATION", "type", 1)
SET_DECL_EXPLICIT_INSTANTIATION_as_implicit ==
    UseTemplateSetter("SET_DECL_EXPLICIT_INSTANTIATION", "decl", 1)
SET_DECL_EXPLICIT_INSTANTIATION ==
    UseTemplateSetter("SET_DECL_EXPLICIT_INSTANTIATION", "decl", 3)
SET_CLASSTYPE_EXPLICIT_INSTANTIATION ==
    UseTemplateSetter("SET_CLASSTYPE_EXPLICIT_INSTANTIATION", "type", 3)

\* DECL_USE_TEMPLATE (NODE) = v and CLASSTYPE_USE_TEMPLATE (NODE) = v used
\* directly as the target of an assignment.
ASSIGN_DECL_USE_TEMPLATE(v) == UseTemplateSetter("DECL_USE_TEMPLATE", "decl", v)
ASSIGN_CLASSTYPE_USE_TEMPLATE(v) == UseTemplateSetter("CLASSTYPE_USE_TEMPLATE", "type", v)

UseTemplateSetters ==
    {SET_DECL_TEMPLATE_SPECIALIZATION, SET_CLASSTYPE_TEMPLATE_SPECIALIZATION,
     SET_DECL_IMPLICIT_INSTANTIATION, SET_CLASSTYPE_IMPLICIT_INSTANTIATION,
     SET_DECL_EXPLICIT_INSTANTIATION, SET_CLASSTYPE_EXPLICIT_INSTANTIATION}

\* The store to the bit-field; neither macro runs a check, so a declaration
\* without extension data is a null dereference.
StoreUseTemplate(s, n) ==
    /\ failed = "none"
    /\ LET st == IF s.on = "decl" /\ DECL_LANG_SPECIFIC(n).null THEN "undefined" ELSE "ok"
       IN /\ last' = [op |-> s.name, on |-> s.on, node |-> n, rw |-> "w", status |-> st,
                      val |-> s.value]
          /\ failed' = IF st = "ok" THEN "none" ELSE st
          /\ decls' = IF st = "ok" /\ s.on = "decl"
                      THEN [decls EXCEPT ![n].lang_specific.use_template =
                                            BitField(s.value, UseTemplateWidth)]
                      ELSE decls
          /\ types' = IF s.on = "type"
                      THEN [types EXCEPT ![n].lang_specific.use_template =
                                            BitField(s.value, UseTemplateWidth)]
                      ELSE types
    /\ UNCHANGED <<nodes, walk, ops>>

NodesOf(on) == IF on = "decl" THEN DeclIds ELSE TypeIds

\* Declarations of three variants (the first possibly without extension
\* data yet) and two class types, all freshly made: use_template is 0.
InitTmpl ==
    /\ \E lang \in {NullLang, lang_decl("lds_min")} :
          decls = [d \in DeclIds |->
                     CASE d = 1 -> NewDecl("VAR_DECL", lang)
                       [] d = 2 -> NewDecl("FUNCTION_DECL", lang_decl("lds_fn"))
                       [] d = 3 -> NewDecl("TYPE_DECL", lang_decl("lds_min"))]
    /\ types = [t \in TypeIds |-> NewClassType(IF t = 1 THEN "RECORD_TYPE" ELSE "UNION_TYPE")]
    /\ nodes = NoNodes
    /\ walk = NoWalk
    /\ last = NoDeclAccess
    /\ failed = "none"
    /\ ops = 0

SetUseTemplate == \E s \in UseTemplateSetters : \E n \in NodesOf(s.on) : StoreUseTemplate(s, n)

AssignUseTemplate ==
    \E v \in 0 .. 7 :
    \E s \in {ASSIGN_DECL_USE_TEMPLATE(v), ASSIGN_CLASSTYPE_USE_TEMPLATE(v)} :
    \E n \in NodesOf(s.on) : StoreUseTemplate(s, n)

NextTmpl == SetUseTemplate \/ AssignUseTemplate

SpecTmpl == InitTmpl /\ [][NextTmpl]_vars

DeclsWithLang == {d \in DeclIds : ~DECL_LANG_SPECIFIC(d).null}

DeclPredicates ==
    {"TEMPLATE_INSTANTIATION", "TEMPLATE_SPECIALIZATION", "IMPLICIT_INSTANTIATION",
     "EXPLICIT_INSTANTIATION"}

DeclPredicate(p, d) ==
    CASE p = "TEMPLATE_INSTANTIATION" -> DECL_TEMPLATE_INSTANTIATION(d)
      [] p = "TEMPLATE_SPECIALIZATION" -> DECL_TEMPLATE_SPECIALIZATION(d)
      [] p = "IMPLICIT_INSTANTIATION" -> DECL_IMPLICIT_INSTANTIATION(d)
      [] p = "EXPLICIT_INSTANTIATION" -> DECL_EXPLICIT_INSTANTIATION(d)

ClassTypePredicate(p, t) ==
    CASE p = "TEMPLATE_INSTANTIATION" -> CLASSTYPE_TEMPLATE_INSTANTIATION(t)
      [] p = "TEMPLATE_SPECIALIZATION" -> CLASSTYPE_TEMPLATE_SPECIALIZATION(t)
      [] p = "IMPLICIT_INSTANTIATION" -> CLASSTYPE_IMPLICIT_INSTANTIATION(t)
      [] p = "EXPLICIT_INSTANTIATION" -> CLASSTYPE_EXPLICIT_INSTANTIATION(t)

\* C9 as stated: every use_template predicate is an equality test, true for
\* exactly one of the values 0..3: for each predicate there is one value c
\* such that the predicate holds of a node exactly when its field is c.
C9_EveryPredicateIsEqualityTest ==
    \A p \in DeclPredicates :
        /\ \E c \in 0 .. 3 : \A d \in DeclsWithLang :
              DeclPredicate(p, d) <=> (DECL_USE_TEMPLATE(d) = c)
        /\ \E c \in 0 .. 3 : \A t \in TypeIds :
              ClassTypePredicate(p, t) <=> (CLASSTYPE_USE_TEMPLATE(t) = c)

\* C9 amended: *_TEMPLATE_SPECIALIZATION, *_IMPLICIT_INSTANTIATION and
\* *_EXPLICIT_INSTANTIATION are equality tests against 2, 1 and 3; the
\* *_TEMPLATE_INSTANTIATION predicates test bit 0 and are true for the two
\* values 1 and 3.
C9_PredicatesByValue ==
    /\ \A d \in DeclsWithLang :
          /\ DECL_TEMPLATE_SPECIALIZATION(d) <=> (DECL_USE_TEMPLATE(d) = 2)
          /\ DECL_IMPLICIT_INSTANTIATION(d) <=> (DECL_USE_TEMPLATE(d) = 1)
          /\ DECL_EXPLICIT_INSTANTIATION(d) <=> (DECL_USE_TEMPLATE(d) = 3)
          /\ DECL_TEMPLATE_INSTANTIATION(d) <=> (DECL_USE_TEMPLATE(d) \in {1, 3})
    /\ \A t \in TypeIds :
          /\ CLASSTYPE_TEMPLATE_SPECIALIZATION(t) <=> (CLASSTYPE_USE_TEMPLATE(t) = 2)
          /\ CLASSTYPE_IMPLICIT_INSTANTIATION(t) <=> (CLASSTYPE_USE_TEMPLATE(t) = 1)
          /\ CLASSTYPE_EXPLICIT_INSTANTIATION(t) <=> (CLASSTYPE_USE_TEMPLATE(t) = 3)
          /\ CLASSTYPE_TEMPLATE_INSTANTIATION(t) <=> (CLASSTYPE_USE_TEMPLATE(t) \in {1, 3})

\* An explicitly instantiated declaration next to an implicitly instantiated
\* one: DECL_TEMPLATE_INSTANTIATION holds of both.
C9_Witness ==
    /\ ~DECL_LANG_SPECIFIC(1).null
    /\ DECL_USE_TEMPLATE(1) = 3
    /\ DECL_USE_TEMPLATE(2) = 1
    /\ DECL_TEMPLATE_INSTANTIATION(1)
    /\ DECL_TEMPLATE_INSTANTIATION(2)

\* C10: use_template of every declaration and class type is one of 0..3
\* whatever was stored, and right after SET_DECL_EXPLICIT_INSTANTIATION or
\* SET_CLASSTYPE_EXPLICIT_INSTANTIATION the field reads 3, the explicit
\* instantiation predicate is true and the implicit one false.
C10_UseTemplateRangeAndRoundTrip ==
    /\ \A d \in DeclsWithLang : DECL_USE_TEMPLATE(d) \in 0 .. 3
    /\ \A t \in TypeIds : CLASSTYPE_USE_TEMPLATE(t) \in 0 .. 3
    /\ (last.op = "SET_DECL_EXPLICIT_INSTANTIATION" /\ last.status = "ok")
          => /\ DECL_USE_TEMPLATE(last.node) = 3
             /\ DECL_EXPLICIT_INSTANTIATION(last.node)
             /\ ~DECL_IMPLICIT_INSTANTIATION(last.node)
    /\ (last.op = "SET_CLASSTYPE_EXPLICIT_INSTANTIATION" /\ last.status = "ok")
          => /\ CLASSTYPE_USE_TEMPLATE(last.node) = 3
             /\ CLASSTYPE_EXPLICIT_INSTANTIATION(last.node)
             /\ ~CLASSTYPE_IMPLICIT_INSTANTIATION(last.node)

\* SET_DECL_EXPLICIT_INSTANTIATION just ran on a declaration that another
\* store had left at a different value before.
C10_Witness ==
    /\ last.op = "SET_DECL_EXPLICIT_INSTANTIATION"
    /\ last.status = "ok"
    /\ last.node = 2
    /\ DECL_USE_TEMPLATE(2) = 3
    /\ DECL_EXPLICIT_INSTANTIATION(2)
    /\ CLASSTYPE_USE_TEMPLATE(1) = 2

(***************************************************************************)
(* The two builds.  With ENABLE_TREE_CHECKING the check macros test the    *)
(* node before handing back the variant; without it they are plain member  *)
(* selections.  An access through a null pointer, or to a member of a      *)
(* variant the data does not hold, is undefined.                           *)
(***************************************************************************)
Builds == {"checked", "unchecked"}

OtherBuild(build) == IF build = "checked" THEN "unchecked" ELSE "checked"

\* The declaration whose extension data the unchecked macro reaches:
\* LANG_DECL_FN_CHECK still looks through a template, the others and the
\* tree checks are the node itself.
UncheckedOwner_no_strip(a, d) == d

UncheckedOwner(a, d) == IF a.check = "LANG_DECL_FN_CHECK" THEN STRIP_TEMPLATE(d) ELSE d

HoldsField(o, field) ==
    /\ o # NULL_TREE
    /\ ~DECL_LANG_SPECIFIC(o).null
    /\ field \in DOMAIN DECL_LANG_SPECIFIC(o)

UncheckedStatus(a, d) == IF HoldsField(UncheckedOwner(a, d), a.field) THEN "ok" ELSE "undefined"

AccessOwner(build, a, d) == IF build = "checked" THEN Owner(a, d) ELSE UncheckedOwner(a, d)

AccessStatus(build, a, d) ==
    IF build = "checked" THEN CheckStatus(a, d) ELSE UncheckedStatus(a, d)

\* The value the accessor yields as an rvalue, and the store after it was
\* assigned v; both only where AccessStatus is "ok".
AccessRead(build, store, a, d) ==
    FieldRead(store[AccessOwner(build, a, d)].lang_specific, a.field)

AccessWrite(build, store, a, d, v) == FieldWrite(store, AccessOwner(build, a, d), a.field, v)

\* One use of an accessor macro compiled in the given build.  Next to its
\* own outcome the step records the outcome the other build's form of the
\* same macro has on the same node in the same state.
AccessFieldIn(build, a, d, rw, v) ==
    /\ failed = "none"
    /\ LET st == AccessStatus(build, a, d)
           twin == OtherBuild(build)
           tst == AccessStatus(twin, a, d)
           after == IF st = "ok" /\ rw = "w" THEN AccessWrite(build, decls, a, d, v) ELSE decls
           tafter == IF tst = "ok" /\ rw = "w" THEN AccessWrite(twin, decls, a, d, v) ELSE decls
       IN /\ last' = [op |-> a.name, node |-> d, rw |-> rw, build |-> build,
                      status |-> st,
                      val |-> IF st # "ok" THEN 0
                              ELSE IF rw = "r" THEN AccessRead(build, decls, a, d) ELSE v,
                      twin_status |-> tst,
                      twin_val |-> IF tst # "ok" THEN 0
                                   ELSE IF rw = "r" THEN AccessRead(twin, decls, a, d) ELSE v,
                      twin_same |-> (after = tafter)]
          /\ failed' = IF st = "ok" THEN "none" ELSE st
          /\ decls' = after
    /\ UNCHANGED <<nodes, types, walk, ops>>

(***************************************************************************)
(* NON_DEFAULT_TEMPLATE_ARGS_COUNT of a one-level template argument        *)
(* vector: an INTEGER_CST on the TREE_CHAIN of the TREE_VEC, or null.      *)
(***************************************************************************)
NullCount == [null |-> TRUE]

build_int_cst(k) == [null |-> FALSE, int_cst |-> k]

NewTreeVec(len) == [code |-> "TREE_VEC", length |-> len, chain |-> NullCount]

NON_DEFAULT_TEMPLATE_ARGS_COUNT(vec) == nodes[vec].chain

TREE_VEC_LENGTH(vec) == nodes[vec].length

\* [status, val] of GET_NON_DEFAULT_TEMPLATE_ARGS_COUNT: the CHECKING_P form
\* hands the count to int_cst_value whatever it is, the other form falls
\* back on the length of the vector when no count was set.
GET_NON_DEFAULT_TEMPLATE_ARGS_COUNT(build, vec) ==
    IF build = "checked"
    THEN (IF NON_DEFAULT_TEMPLATE_ARGS_COUNT(vec).null
          THEN [status |-> "undefined", val |-> 0]
          ELSE [status |-> "ok", val |-> NON_DEFAULT_TEMPLATE_ARGS_COUNT(vec).int_cst])
    ELSE (IF ~NON_DEFAULT_TEMPLATE_ARGS_COUNT(vec).null
          THEN [status |-> "ok", val |-> NON_DEFAULT_TEMPLATE_ARGS_COUNT(vec).int_cst]
          ELSE [status |-> "ok", val |-> TREE_VEC_LENGTH(vec)])

SET_NON_DEFAULT_TEMPLATE_ARGS_COUNT(vec, k) ==
    /\ failed = "none"
    /\ nodes' = [nodes EXCEPT ![vec].chain = build_int_cst(k)]
    /\ last' = [op |-> "SET_NON_DEFAULT_TEMPLATE_ARGS_COUNT", node |-> vec, rw |-> "w",
                build |-> "checked", status |-> "ok", val |-> k,
                twin_status |-> "ok", twin_val |-> k, twin_same |-> TRUE]
    /\ UNCHANGED <<decls, types, walk, failed, ops>>

GetNonDefaultTemplateArgsCount(build, vec) ==
    /\ failed = "none"
    /\ LET r == GET_NON_DEFAULT_TEMPLATE_ARGS_COUNT(build, vec)
           t == GET_NON_DEFAULT_TEMPLATE_ARGS_COUNT(OtherBuild(build), vec)
       IN /\ last' = [op |-> "GET_NON_DEFAULT_TEMPLATE_ARGS_COUNT", node |-> vec, rw |-> "r",
                      build |-> build, status |-> r.status, val |-> r.val,
                      twin_status |-> t.status, twin_val |-> t.val, twin_same |-> TRUE]
          /\ failed' = IF r.status = "ok" THEN "none" ELSE r.status
    /\ UNCHANGED <<nodes, decls, types, walk, ops>>

NoBuildAccess ==
    [op |-> "none", node |-> NULL_TREE, rw |-> "none", build |-> "none", status |-> "none",
     val |-> 0, twin_status |-> "none", twin_val |-> 0, twin_same |-> TRUE]

BuildAccessors == VariantAccessors \cup {THUNK_FIXED_OFFSET, DECL_CLONED_FUNCTION, THUNK_TARGET}

\* The declarations of InitDecl, the first of them possibly already a
\* thunk, and one template argument vector without a count yet.
InitBuilds ==
    /\ \E c \in DeclCodes :
       \E lang \in {NullLang} \cup {lang_decl(sel) : sel \in SelectorsFor(c)} :
       \E r \in (IF c = "TEMPLATE_DECL" THEN {NULL_TREE, 2, 3} ELSE {NULL_TREE}) :
       \E thunk \in (IF c = "FUNCTION_DECL" /\ ~lang.null THEN {0, 1} ELSE {0}) :
          decls = [d \in DeclIds |->
                     CASE d = 1 -> [NewDecl(c, IF thunk = 1
                                               THEN [lang EXCEPT !.thunk_p = 1]
                                               ELSE lang)
                                       EXCEPT !.result = r]
                       [] d = 2 -> NewDecl("FUNCTION_DECL", lang_decl("lds_fn"))
                       [] d = 3 -> NewDecl("TYPE_DECL", lang_decl("lds_min"))]
    /\ \E len \in {1, 2} : nodes = <<NewTreeVec(len)>>
    /\ types = NoTypes
    /\ walk = NoWalk
    /\ last = NoBuildAccess
    /\ failed = "none"
    /\ ops = 0

ReadFieldInBuild == \E b \in Builds, a \in BuildAccessors : AccessFieldIn(b, a, 1, "r", 0)

WriteFieldInBuild ==
    \E b \in Builds, a \in BuildAccessors, v \in {0, 1} : AccessFieldIn(b, a, 1, "w", v)

SetArgsCount == \E k \in {0, 1} : SET_NON_DEFAULT_TEMPLATE_ARGS_COUNT(1, k)

GetArgsCount == \E b \in Builds : GetNonDefaultTemplateArgsCount(b, 1)

NextBuilds == ReadFieldInBuild \/ WriteFieldInBuild \/ SetArgsCount \/ GetArgsCount

SpecBuilds == InitBuilds /\ [][NextBuilds]_vars

CheckedStatusOfLast == IF last.build = "checked" THEN last.status ELSE last.twin_status

\* C11: wherever the checked form of an accessor does not fail, the checked
\* and the unchecked form both succeed, yield the same value, leave the same
\* store behind when assigned to, and a value written through the one is
\* what a read through the other returns.
C11_CheckedUncheckedParity ==
    (last.op # "none" /\ CheckedStatusOfLast = "ok")
        => /\ last.status = "ok"
           /\ last.twin_status = "ok"
           /\ last.val = last.twin_val
           /\ last.twin_same
           /\ (last.rw = "w" /\ last.op # "SET_NON_DEFAULT_TEMPLATE_ARGS_COUNT")
                => AccessRead(OtherBuild(last.build), decls, LastAcc, last.node) = last.val
           /\ last.op = "SET_NON_DEFAULT_TEMPLATE_ARGS_COUNT"
                => /\ GET_NON_DEFAULT_TEMPLATE_ARGS_COUNT("checked", last.node).val = last.val
                   /\ GET_NON_DEFAULT_TEMPLATE_ARGS_COUNT("unchecked", last.node).val = last.val

\* A value written through the unchecked DECL_PURE_VIRTUAL_P of a function
\* template, on which the checked form passes, sits in the result's data.
C11_Witness ==
    /\ last.op = "DECL_PURE_VIRTUAL_P"
    /\ last.build = "unchecked"
    /\ last.rw = "w"
    /\ last.val = 1
    /\ last.twin_status = "ok"
    /\ TREE_CODE(1) = "TEMPLATE_DECL"
    /\ DECL_LANG_SPECIFIC(2).pure_virtual = 1

(***************************************************************************)
(* The selector against everything that writes a declaration: the slot     *)
(* accessors in both builds, SET_DECL_LANGUAGE, SET_DECL_THUNK_P, a        *)
(* use_template setter and a flag of the declaration's flag banks (kept in *)
(* nodes under the declaration's own number).                              *)
(***************************************************************************)
\* ENUM_BITFIELD (languages) language : 1
LanguageWidth == 1

StoreLanguage_over_selector(lt, l) ==
    [lt EXCEPT !.selector = IF l = 0 THEN "lds_min" ELSE "lds_fn"]

StoreLanguage(lt, l) == [lt EXCEPT !.language = BitField(l, LanguageWidth)]

\* SET_DECL_LANGUAGE (NODE, LANGUAGE): no check at all.
SET_DECL_LANGUAGE(d, l) ==
    /\ failed = "none"
    /\ LET st == IF DECL_LANG_SPECIFIC(d).null THEN "undefined" ELSE "ok"
       IN /\ last' = [op |-> "SET_DECL_LANGUAGE", node |-> d, rw |-> "w", status |-> st,
                      val |-> l]
          /\ failed' = IF st = "ok" THEN "none" ELSE st
          /\ decls' = IF st = "ok"
                      THEN [decls EXCEPT ![d].lang_specific = StoreLanguage(@, l)]
                      ELSE decls
    /\ UNCHANGED <<nodes, types, walk, ops>>

SlotAccessors ==
    {DECL_ACCESS, SET_DECL_THUNKS, THUNK_FIXED_OFFSET, DECL_CLONED_FUNCTION,
     DECL_PENDING_INLINE_INFO, DECL_PARM_INDEX, NAMESPACE_LEVEL, DECL_DECOMP_BASE}

InitSelector ==
    /\ \E c \in DeclCodes :
       \E lang \in {NullLang} \cup {lang_decl(sel) : sel \in SelectorsFor(c)} :
       \E r \in (IF c = "TEMPLATE_DECL" THEN {2, 3} ELSE {NULL_TREE}) :
          /\ decls = [d \in DeclIds |->
                        CASE d = 1 -> [NewDecl(c, lang) EXCEPT !.result = r]
                          [] d = 2 -> NewDecl("FUNCTION_DECL", lang_decl("lds_fn"))
                          [] d = 3 -> NewDecl("TYPE_DECL", lang_decl("lds_min"))]
          /\ nodes = <<NewNode(c)>>
    /\ types = <<NewClassType("RECORD_TYPE")>>
    /\ walk = NoWalk
    /\ last = NoBuildAccess
    /\ failed = "none"
    /\ ops = 0

WriteSlot == \E b \in Builds, a \in SlotAccessors : AccessFieldIn(b, a, 1, "w", 1)

SetLanguage == \E l \in {0, 1} : SET_DECL_LANGUAGE(1, l)

BecomeThunk == SET_DECL_THUNK_P(1, 1)

SpecializeDecl == StoreUseTemplate(SET_DECL_TEMPLATE_SPECIALIZATION, 1)

SetDeclFlag == \E v \in {0, 1} : SetFlag(DECL_IN_AGGR_P, 1, v)

NextSelector == WriteSlot \/ SetLanguage \/ BecomeThunk \/ SpecializeDecl \/ SetDeclFlag

SpecSelector == InitSelector /\ [][NextSelector]_vars

\* C12: no step changes the selector of any declaration's extension data,
\* nor whether the declaration has extension data.
C12_SelectorFixedAtCreation ==
    [][\A d \in DeclIds :
          /\ decls'[d].lang_specific.null = decls[d].lang_specific.null
          /\ ~decls[d].lang_specific.null
                => decls'[d].lang_specific.selector = decls[d].lang_specific.selector]_vars

\* A function declaration that was made a thunk, specialised, given a
\* language and had its slots written, still tagged lds_fn.
C12_Witness ==
    /\ last.op = "SET_DECL_LANGUAGE"
    /\ last.status = "ok"
    /\ TREE_CODE(1) = "FUNCTION_DECL"
    /\ DECL_LANG_SPECIFIC(1).selector = "lds_fn"
    /\ DECL_LANG_SPECIFIC(1).language = 1
    /\ DECL_LANG_SPECIFIC(1).thunk_p = 1
    /\ DECL_LANG_SPECIFIC(1).use_template = 2
    /\ DECL_LANG_SPECIFIC(1).u5 = 1
    /\ DECL_LANG_SPECIFIC(1).context = 1

FlagBanks == {"tree", "type", "decl"}

\* C13: a flag write through a named accessor changes at most the one bit
\* (node, bank, index) the accessor names: the other two banks of the node,
\* the other indices of the same bank and every other node keep their
\* flags, and the node keeps its code.
C13_FlagWriteFrame ==
    [][(ops' = ops + 1) =>
        /\ \A n \in NodeIds : nodes'[n].code = nodes[n].code
        /\ \A n \in NodeIds : \A bank \in FlagBanks :
              /\ (n # last'.node \/ bank # AccNamed(last'.op).bank)
                    => Bank(nodes'[n], bank) = Bank(nodes[n], bank)
              /\ Bank(nodes'[n], bank) \ {AccNamed(last'.op).idx}
                    = Bank(nodes[n], bank) \ {AccNamed(last'.op).idx}
        /\ last'.ok => FlagRead(nodes', AccNamed(last'.op), last'.node) = last'.val]_vars

\* A declaration flag was just set on a node that already carried a
\* node-generic flag, next to a node carrying none.
C13_Witness ==
    /\ last.op = "DECL_MUTABLE_P"
    /\ last.ok
    /\ last.val = 1
    /\ nodes[last.node].code = "FIELD_DECL"
    /\ nodes[last.node].lang_flag # {}
    /\ nodes[last.node].decl_flag = {AccNamed("DECL_MUTABLE_P").idx}
    /\ \E n \in NodeIds : n # last.node /\ nodes[n].lang_flag = {} /\ nodes[n].decl_flag = {}

(***************************************************************************)
(* Looking through a template: the Fn accessors used on a template and on  *)
(* what it declares.                                                       *)
(***************************************************************************)
FnAccessors == {DECL_STATIC_FUNCTION_P, DECL_PURE_VIRTUAL_P, DECL_BEFRIENDING_CLASSES}

\* Declaration 1 is a template (of function 2, of type 3, or still without
\* a result), a function or a variable; function 2 is a constructor or
\* not and static or not, as its creator made it.
InitStrip ==
    /\ \E first \in {<<"TEMPLATE_DECL", "lds_min", NULL_TREE>>, <<"TEMPLATE_DECL", "lds_min", 2>>,
                     <<"TEMPLATE_DECL", "lds_min", 3>>, <<"FUNCTION_DECL", "lds_fn", NULL_TREE>>,
                     <<"VAR_DECL", "lds_min", NULL_TREE>>} :
       \E ctor \in {0, 1}, static \in {0, 1} :
          decls = [d \in DeclIds |->
                     CASE d = 1 -> [NewDecl(first[1], lang_decl(first[2]))
                                       EXCEPT !.result = first[3]]
                       [] d = 2 -> [NewDecl("FUNCTION_DECL", lang_decl("lds_fn"))
                                       EXCEPT !.cxx_constructor = ctor,
                                              !.lang_specific.static_function = static]
                       [] d = 3 -> NewDecl("TYPE_DECL", lang_decl("lds_min"))]
    /\ nodes = NoNodes
    /\ types = NoTypes
    /\ walk = NoWalk
    /\ last = NoBuildAccess
    /\ failed = "none"
    /\ ops = 0

ReadFnField == \E b \in Builds, a \in FnAccessors, d \in {1, 2} : AccessFieldIn(b, a, d, "r", 0)

WriteFnField ==
    \E b \in Builds, a \in FnAccessors, d \in {1, 2}, v \in {0, 1} :
        AccessFieldIn(b, a, d, "w", v)

NextStrip == ReadFnField \/ WriteFnField

SpecStrip == InitStrip /\ [][NextStrip]_vars

\* C14: STRIP_TEMPLATE of a TEMPLATE_DECL is its DECL_TEMPLATE_RESULT and of
\* anything else the node itself; on a function template every accessor
\* built on LANG_DECL_FN_CHECK, in either build, has the outcome, the owner
\* and the value it has on the function the template declares, a value
\* written through the one is read through the other, and
\* DECL_CONSTRUCTOR_P answers the same for both.
C14_FnAccessorsLookThroughTemplate ==
    /\ \A d \in DeclIds :
          /\ TREE_CODE(d) = "TEMPLATE_DECL" => STRIP_TEMPLATE(d) = decls[d].result
          /\ TREE_CODE(d) # "TEMPLATE_DECL" => STRIP_TEMPLATE(d) = d
    /\ \A d \in DeclIds :
          (TREE_CODE(d) = "TEMPLATE_DECL" /\ decls[d].result # NULL_TREE
               /\ decls[decls[d].result].code = "FUNCTION_DECL")
          => /\ DECL_CONSTRUCTOR_P(d) = (decls[decls[d].result].cxx_constructor = 1)
             /\ DECL_CONSTRUCTOR_P(d) = DECL_CONSTRUCTOR_P(decls[d].result)
             /\ \A b \in Builds, a \in FnAccessors :
                   /\ AccessStatus(b, a, d) = "ok"
                   /\ AccessStatus(b, a, decls[d].result) = "ok"
                   /\ AccessOwner(b, a, d) = decls[d].result
                   /\ AccessOwner(b, a, decls[d].result) = decls[d].result
                   /\ AccessRead(b, decls, a, d) = AccessRead(b, decls, a, decls[d].result)
    /\ (last.op # "none" /\ last.status = "ok" /\ last.rw = "w")
          => \A b \in Builds :
                /\ AccessRead(b, decls, LastAcc, last.node) = last.val
                /\ AccessRead(b, decls, LastAcc, STRIP_TEMPLATE(last.node)) = last.val

\* DECL_STATIC_FUNCTION_P was just set through a function template whose
\* function is a constructor: the function's own data has the bit.
C14_Witness ==
    /\ last.op = "DECL_STATIC_FUNCTION_P"
    /\ last.rw = "w"
    /\ last.status = "ok"
    /\ last.val = 1
    /\ last.node = 1
    /\ TREE_CODE(1) = "TEMPLATE_DECL"
    /\ STRIP_TEMPLATE(1) = 2
    /\ DECL_LANG_SPECIFIC(2).static_function = 1
    /\ DECL_CONSTRUCTOR_P(1)
    /\ ~DECL_CXX_CONSTRUCTOR_P(1)

\* ---------------------------------------------------------------------------
\* Type comparison: comptypes and the modes of its third argument.

ClassIds == {1, 2, 3}

\* A class type with the binfos of its direct bases, left to right.
NewClass(bases) ==
    [code |-> "RECORD_TYPE", bases |-> bases,
     lang_specific |-> [null |-> FALSE, use_template |-> 0]]

BaseBinfo(t, virtual) == [type |-> t, virtual |-> virtual]

DirectBases(t) == {types[t].bases[i].type : i \in 1..Len(types[t].bases)}

RECURSIVE BasesOf(_)
BasesOf(t) == DirectBases(t) \cup UNION {BasesOf(b) : b \in DirectBases(t)}

\* The binfo of BASE within T, or NULL_TREE when T neither is nor derives
\* from BASE (access and ambiguity are ignored by the callers modelled here).
lookup_base(t, base) == IF base = t \/ base \in BasesOf(t) THEN base ELSE NULL_TREE

DERIVED_FROM_P(parent, type) == lookup_base(type, parent) # NULL_TREE

COMPARE_STRICT == 0

COMPARE_BASE == 1

COMPARE_DERIVED == 2

ModeHas(strict, bit) == (strict \div bit) % 2 = 1

CompareModes == {COMPARE_STRICT, COMPARE_BASE, COMPARE_DERIVED, COMPARE_BASE + COMPARE_DERIVED}

\* COMPARE_BASE: "check to see if the second type is derived from the first";
\* COMPARE_DERIVED: "like COMPARE_BASE, but in reverse".
comptypes(t1, t2, strict) ==
    IF t1 = t2 THEN TRUE
    ELSE IF ModeHas(strict, COMPARE_BASE) /\ DERIVED_FROM_P(t1, t2) THEN TRUE
    ELSE IF ModeHas(strict, COMPARE_DERIVED) /\ DERIVED_FROM_P(t2, t1) THEN TRUE
    ELSE FALSE

same_type_p(t1, t2) == comptypes(t1, t2, COMPARE_STRICT)

same_or_base_type_p_in_derived_mode(t1, t2) == comptypes(t1, t2, COMPARE_DERIVED)

same_or_base_type_p(t1, t2) == comptypes(t1, t2, COMPARE_BASE)

NoCompare == [op |-> "none", t1 |-> NULL_TREE, t2 |-> NULL_TREE, strict |-> 0, val |-> FALSE]

\* Single-inheritance hierarchies over three classes: class 2 may derive
\* from class 1, class 3 from class 1 or from class 2.
InitCompare ==
    /\ \E b2 \in {<<>>, <<BaseBinfo(1, FALSE)>>},
          b3 \in {<<>>, <<BaseBinfo(1, FALSE)>>, <<BaseBinfo(2, FALSE)>>} :
          types = [t \in ClassIds |->
                     CASE t = 1 -> NewClass(<<>>)
                       [] t = 2 -> NewClass(b2)
                       [] t = 3 -> NewClass(b3)]
    /\ nodes = NoNodes
    /\ decls = NoDecls
    /\ walk = NoWalk
    /\ last = NoCompare
    /\ failed = "none"
    /\ ops = 0

CompareTypes ==
    \E t1 \in ClassIds, t2 \in ClassIds, strict \in CompareModes :
        /\ last' = [op |-> "comptypes", t1 |-> t1, t2 |-> t2, strict |-> strict,
                    val |-> comptypes(t1, t2, strict)]
        /\ UNCHANGED <<nodes, decls, types, walk, failed, ops>>

SameType ==
    \E t1 \in ClassIds, t2 \in ClassIds :
        /\ last' = [op |-> "same_type_p", t1 |-> t1, t2 |-> t2, strict |-> COMPARE_STRICT,
                    val |-> same_type_p(t1, t2)]
        /\ UNCHANGED <<nodes, decls, types, walk, failed, ops>>

SameOrBaseType ==
    \E t1 \in ClassIds, t2 \in ClassIds :
        /\ last' = [op |-> "same_or_base_type_p", t1 |-> t1, t2 |-> t2,
                    strict |-> COMPARE_BASE, val |-> same_or_base_type_p(t1, t2)]
        /\ UNCHANGED <<nodes, decls, types, walk, failed, ops>>

NextCompare == CompareTypes \/ SameType \/ SameOrBaseType

SpecCompare == InitCompare /\ [][NextCompare]_vars

\* The inheritance relation read off the base lists alone: a chain of direct
\* bases of length one or two leads from T to BASE.
DerivesFrom(t, base) ==
    \/ \E i \in 1..Len(types[t].bases) : types[t].bases[i].type = base
    \/ \E m \in ClassIds :
          /\ \E i \in 1..Len(types[t].bases) : types[t].bases[i].type = m
          /\ \E j \in 1..Len(types[m].bases) : types[m].bases[j].type = base

InBaseMode == last.op \in {"comptypes", "same_or_base_type_p"} /\ last.strict = COMPARE_BASE

VbClassIds == {1, 2, 3, 4}

MaxBases == 2

\* A class that has no definition yet; LANG_SPECIFIC carries the vbases vector.
NewVbClass ==
    [code |-> "RECORD_TYPE", bases |-> <<>>,
     lang_specific |-> [null |-> FALSE, use_template |-> 0, vbases |-> <<>>]]

CLASSTYPE_VBASECLASSES_as_direct_bases(t) ==
    [i \in 1..Len(types[t].bases) |-> types[t].bases[i].type]

CLASSTYPE_VBASECLASSES(t) == LANG_TYPE_CLASS_CHECK(t).vbases

SeqRange(s) == {s[i] : i \in 1..Len(s)}

\* Whether TYPE already has a binfo among the virtual bases collected so far.
binfo_for_vbase(type, vbases) == type \in SeqRange(vbases)

RECURSIVE copy_binfo(_, _, _)
RECURSIVE copy_base_binfos(_, _, _)

\* Copies the hierarchy below TYPE into the class being defined; a virtual
\* base is shared when it is already there, and is pushed onto the vector
\* after any virtual bases it contains.
copy_binfo(vbases, type, virt) ==
    IF virt /\ binfo_for_vbase(type, vbases) THEN vbases
    ELSE LET below == copy_base_binfos(vbases, types[type].bases, 1)
         IN  IF virt THEN Append(below, type) ELSE below

copy_base_binfos(vbases, bases, i) ==
    IF i > Len(bases) THEN vbases
    ELSE copy_base_binfos(copy_binfo(vbases, bases[i].type, bases[i].virtual), bases, i + 1)

\* Base lists a class definition may name: distinct classes already defined.
BaseLists(defined) ==
    {bl \in UNION {[1..n -> [type : defined, virtual : BOOLEAN]] : n \in 0..MaxBases} :
        \A i \in 1..Len(bl), j \in 1..Len(bl) : i # j => bl[i].type # bl[j].type}

xref_basetypes(t, base_list) ==
    /\ types' = [types EXCEPT ![t].bases = base_list,
                              ![t].lang_specific.vbases = copy_base_binfos(<<>>, base_list, 1)]
    /\ last' = [op |-> "xref_basetypes", t |-> t, val |-> <<>>]
    /\ ops' = t
    /\ UNCHANGED <<nodes, decls, walk, failed>>

ReadVbases(t) ==
    /\ last' = [op |-> "CLASSTYPE_VBASECLASSES", t |-> t, val |-> CLASSTYPE_VBASECLASSES(t)]
    /\ UNCHANGED <<nodes, decls, types, walk, failed, ops>>

InitVbases ==
    /\ types = [t \in VbClassIds |-> NewVbClass]
    /\ nodes = NoNodes
    /\ decls = NoDecls
    /\ walk = NoWalk
    /\ last = [op |-> "none", t |-> NULL_TREE, val |-> <<>>]
    /\ failed = "none"
    /\ ops = 0

\* Classes are defined in order; ops counts the classes defined so far.
DefineClass ==
    \E t \in VbClassIds :
        /\ t = ops + 1
        /\ \E bl \in BaseLists({c \in VbClassIds : c <= ops}) : xref_basetypes(t, bl)

ReadVirtualBases == \E t \in VbClassIds : t <= ops /\ ReadVbases(t)

NextVbases == DefineClass \/ ReadVirtualBases

SpecVbases == InitVbases /\ [][NextVbases]_vars

DefinedClasses == {c \in VbClassIds : c <= ops}

VirtualDirectBases(t) ==
    {types[t].bases[i].type : i \in {j \in 1..Len(types[t].bases) : types[t].bases[j].virtual}}

\* Every class that is a virtual base of T or of one of T's bases.
VirtualBasesOf(t) == UNION {VirtualDirectBases(x) : x \in {t} \cup BasesOf(t)}

PositionIn(s, x) == CHOOSE i \in 1..Len(s) : s[i] = x

RECURSIVE WithoutRepeats(_)
WithoutRepeats(s) ==
    IF s = <<>> THEN <<>>
    ELSE LET front == WithoutRepeats(SubSeq(s, 1, Len(s) - 1))
         IN  IF s[Len(s)] \in SeqRange(front) THEN front ELSE Append(front, s[Len(s)])

RECURSIVE InitializationOrder(_, _)
\* The stored sequences of the first N direct bases of T, left to right, each
\* followed by the base itself when it is virtual.
InitializationOrder(t, n) ==
    IF n = 0 THEN <<>>
    ELSE LET b == types[t].bases[n]
         IN  InitializationOrder(t, n - 1) \o CLASSTYPE_VBASECLASSES(b.type)
                 \o (IF b.virtual THEN <<b.type>> ELSE <<>>)

\* C16: the stored virtual-base sequence of every defined class holds each
\* direct or indirect virtual base exactly once, every virtual base after
\* the virtual bases it contains, the direct bases' contributions left to
\* right (the order of initialization), and a read returns the sequence that
\* every later read returns.
C16_VbasesPostOrderOnce ==
    /\ \A t \in DefinedClasses :
          LET vb == CLASSTYPE_VBASECLASSES(t)
          IN  /\ SeqRange(vb) = VirtualBasesOf(t)
              /\ \A i \in 1..Len(vb), j \in 1..Len(vb) : i # j => vb[i] # vb[j]
              /\ \A v \in SeqRange(vb) : \A w \in VirtualBasesOf(v) :
                    PositionIn(vb, w) < PositionIn(vb, v)
              /\ vb = WithoutRepeats(InitializationOrder(t, Len(types[t].bases)))
    /\ last.op = "CLASSTYPE_VBASECLASSES" => last.val = CLASSTYPE_VBASECLASSES(last.t)

\* Class 4 derives virtually from 3 and 2, class 3 virtually from 1 and 2,
\* class 2 virtually from 1: the sequence read off class 4 is 1, 2, 3.
C16_Witness ==
    /\ last.op = "CLASSTYPE_VBASECLASSES"
    /\ last.t = 4
    /\ last.val = <<1, 2, 3>>
    /\ types[4].bases = <<BaseBinfo(3, TRUE), BaseBinfo(2, TRUE)>>
    /\ types[3].bases = <<BaseBinfo(1, TRUE), BaseBinfo(2, TRUE)>>

\* ---------------------------------------------------------------------------
\* Constructor bits of a class: has_default_ctor, has_copy_ctor and the lazy
\* bits of the members the class has but has not declared yet.

CtorClassIds == {1, 2}

CtorKinds == {"default_ctor", "copy_ctor"}

\* A class being defined.  user: the constructors the user declared;
\* requested: the constructors whose declaration was asked for after
\* completion.
NewCtorClass ==
    [code |-> "RECORD_TYPE", lang_flag_1 |-> 0, complete |-> FALSE,
     user |-> {}, requested |-> {},
     lang_specific |-> [null |-> FALSE, use_template |-> 0,
                        lazy_default_ctor |-> 0, lazy_copy_ctor |-> 0,
                        has_default_ctor |-> 0, has_copy_ctor |-> 0]]

TYPE_HAS_USER_CONSTRUCTOR(t) == types[t].lang_flag_1

CLASSTYPE_LAZY_DEFAULT_CTOR(t) == LANG_TYPE_CLASS_CHECK(t).lazy_default_ctor

CLASSTYPE_LAZY_COPY_CTOR(t) == LANG_TYPE_CLASS_CHECK(t).lazy_copy_ctor

TYPE_HAS_COPY_CTOR(t) == LANG_TYPE_CLASS_CHECK(t).has_copy_ctor

TYPE_HAS_DEFAULT_CONSTRUCTOR_of_the_lazy_bit(t) == LANG_TYPE_CLASS_CHECK(t).lazy_default_ctor

TYPE_HAS_DEFAULT_CONSTRUCTOR(t) == LANG_TYPE_CLASS_CHECK(t).has_default_ctor

CtorStateAccessors ==
    {"CLASSTYPE_LAZY_DEFAULT_CTOR", "CLASSTYPE_LAZY_COPY_CTOR",
     "TYPE_HAS_COPY_CTOR", "TYPE_HAS_DEFAULT_CONSTRUCTOR"}

ReadCtorBit(a, t) ==
    CASE a = "CLASSTYPE_LAZY_DEFAULT_CTOR" -> CLASSTYPE_LAZY_DEFAULT_CTOR(t)
      [] a = "CLASSTYPE_LAZY_COPY_CTOR" -> CLASSTYPE_LAZY_COPY_CTOR(t)
      [] a = "TYPE_HAS_COPY_CTOR" -> TYPE_HAS_COPY_CTOR(t)
      [] a = "TYPE_HAS_DEFAULT_CONSTRUCTOR" -> TYPE_HAS_DEFAULT_CONSTRUCTOR(t)

\* A constructor the user declares in the class body.
grok_special_member_properties(t, kind) ==
    /\ types' = [types EXCEPT
                   ![t].user = @ \cup {kind},
                   ![t].lang_flag_1 = 1,
                   ![t].lang_specific.has_default_ctor =
                       IF kind = "default_ctor" THEN 1 ELSE @,
                   ![t].lang_specific.has_copy_ctor =
                       IF kind = "copy_ctor" THEN 1 ELSE @]
    /\ last' = [op |-> "grok_special_member_properties", t |-> t, val |-> 0]
    /\ UNCHANGED <<nodes, decls, walk, failed, ops>>

\* At the end of the class body: a class without a user-declared constructor
\* has a default constructor, a class without a copy constructor has one,
\* and both stay undeclared (lazy) until they are needed.
add_implicitly_declared_members(t) ==
    /\ types' = [types EXCEPT
                   ![t].complete = TRUE,
                   ![t].lang_specific.has_default_ctor =
                       IF TYPE_HAS_USER_CONSTRUCTOR(t) = 0 THEN 1 ELSE @,
                   ![t].lang_specific.lazy_default_ctor =
                       IF TYPE_HAS_USER_CONSTRUCTOR(t) = 0 THEN 1 ELSE @,
                   ![t].lang_specific.has_copy_ctor =
                       IF TYPE_HAS_COPY_CTOR(t) = 0 THEN 1 ELSE @,
                   ![t].lang_specific.lazy_copy_ctor =
                       IF TYPE_HAS_COPY_CTOR(t) = 0 THEN 1 ELSE @]
    /\ last' = [op |-> "add_implicitly_declared_members", t |-> t, val |-> 0]
    /\ UNCHANGED <<nodes, decls, walk, failed, ops>>

\* A lookup that needs the constructor: a lazy one is declared now and its
\* lazy bit cleared; nothing else changes.
lazily_declare_fn(t, kind) ==
    /\ types' = [types EXCEPT
                   ![t].requested = @ \cup {kind},
                   ![t].lang_specific.lazy_default_ctor =
                       IF kind = "default_ctor" THEN 0 ELSE @,
                   ![t].lang_specific.lazy_copy_ctor =
                       IF kind = "copy_ctor" THEN 0 ELSE @]
    /\ last' = [op |-> "lazily_declare_fn", t |-> t, val |-> 0]
    /\ UNCHANGED <<nodes, decls, walk, failed, ops>>

InitCtors ==
    /\ types = [t \in CtorClassIds |-> NewCtorClass]
    /\ nodes = NoNodes
    /\ decls = NoDecls
    /\ walk = NoWalk
    /\ last = [op |-> "none", t |-> NULL_TREE, val |-> 0]
    /\ failed = "none"
    /\ ops = 0

DeclareUserCtor ==
    \E t \in CtorClassIds, kind \in CtorKinds :
        /\ ~types[t].complete
        /\ kind \notin types[t].user
        /\ grok_special_member_properties(t, kind)

CompleteClass ==
    \E t \in CtorClassIds : ~types[t].complete /\ add_implicitly_declared_members(t)

RequestCtor ==
    \E t \in CtorClassIds, kind \in CtorKinds :
        /\ types[t].complete
        /\ kind \notin types[t].requested
        /\ lazily_declare_fn(t, kind)

ReadCtorState ==
    \E t \in CtorClassIds, a \in CtorStateAccessors :
        /\ last' = [op |-> a, t |-> t, val |-> ReadCtorBit(a, t)]
        /\ UNCHANGED <<nodes, decls, types, walk, failed, ops>>

NextCtors == DeclareUserCtor \/ CompleteClass \/ RequestCtor \/ ReadCtorState

SpecCtors == InitCtors /\ [][NextCtors]_vars

\* A completed class whose only user-declared constructor is a copy
\* constructor.
CopyCtorOnly(t) == types[t].complete /\ types[t].user = {"copy_ctor"}

error_mark_node == 1

\* type stands for TREE_TYPE: "none" (no type), "val" (not a reference),
\* "ref" (a reference to a "val" type), "refref" (a reference to a "ref"
\* type) or "error" (error_mark_node).
NewExpr(code, type, operands) ==
    [code |-> code, type |-> type, ops |-> operands, read |-> 0, wrapper |-> FALSE,
     volatile |-> FALSE, side_effects |-> FALSE,
     \* of the node's type: TYPE_VOLATILE, COMPLETE_TYPE_P, TREE_ADDRESSABLE
     type_volatile |-> FALSE, type_complete |-> TRUE, type_addressable |-> FALSE,
     \* warning_suppressed_p; DECL_ATTRIBUTES; for a callee, the
     \* TYPE_ATTRIBUTES of the type its function type returns
     no_warning |-> FALSE, attributes |-> {}, rettype_attributes |-> {}]

TREE_OPERAND(store, e, i) == store[e].ops[i + 1]

SetOperand(store, e, i, v) == [store EXCEPT ![e].ops[i + 1] = v]

ExprDeclCodes == {"VAR_DECL", "PARM_DECL", "FUNCTION_DECL"}

DECL_P(store, e) == store[e].code \in ExprDeclCodes

CONSTANT_CLASS_P(store, e) == store[e].code = "INTEGER_CST"

DECL_READ_P(store, e) == store[e].read

\* TYPE_REF_P of the expression's TREE_TYPE.
TypeRefP(store, e) == store[e].type \in {"ref", "refref"}

\* TREE_TYPE of a reference type: the type referred to.
ReferredType(type) == IF type = "refref" THEN "ref" ELSE "val"

\* A new expression of one operand; a reference to a volatile operand is
\* volatile, and side effects of the operand are side effects of the whole.
build1(store, code, type, node) ==
    Append(store, [NewExpr(code, type, <<node, NULL_TREE, NULL_TREE>>)
                      EXCEPT !.volatile = store[node].volatile,
                             !.side_effects = store[node].side_effects])

REFERENCE_REF_P(store, e) ==
    store[e].code = "INDIRECT_REF" /\ TypeRefP(store, TREE_OPERAND(store, e, 0))

error_operand_p(store, e) == e = error_mark_node \/ store[e].type = "error"

location_wrapper_p(store, e) ==
    store[e].code \in {"NON_LVALUE_EXPR", "VIEW_CONVERT_EXPR"} /\ store[e].wrapper

STRIP_ANY_LOCATION_WRAPPER(store, e) ==
    IF location_wrapper_p(store, e) THEN TREE_OPERAND(store, e, 0) ELSE e

CASE_CONVERT == {"NOP_EXPR", "CONVERT_EXPR"}

RECURSIVE mark_exp_read(_, _)
mark_exp_read_through_left_operands(store, exp) ==
    IF exp = NULL_TREE THEN store
    ELSE CASE store[exp].code \in {"VAR_DECL", "PARM_DECL"} ->
                [store EXCEPT ![exp].read = 1]
           [] store[exp].code \in {"COMPOUND_EXPR", "COND_EXPR"} ->
                mark_exp_read(store, TREE_OPERAND(store, exp, 0))
           [] store[exp].code \in {"ARRAY_REF", "COMPONENT_REF", "MODIFY_EXPR",
                                   "REALPART_EXPR", "IMAGPART_EXPR", "ADDR_EXPR",
                                   "INDIRECT_REF", "FLOAT_EXPR", "NON_DEPENDENT_EXPR",
                                   "VIEW_CONVERT_EXPR"} \cup CASE_CONVERT ->
                mark_exp_read(store, TREE_OPERAND(store, exp, 0))
           [] OTHER -> store

mark_exp_read(store, exp) ==
    IF exp = NULL_TREE THEN store
    ELSE CASE store[exp].code \in {"VAR_DECL", "PARM_DECL"} ->
                [store EXCEPT ![exp].read = 1]
           [] store[exp].code \in {"ARRAY_REF", "COMPONENT_REF", "MODIFY_EXPR",
                                   "REALPART_EXPR", "IMAGPART_EXPR", "ADDR_EXPR",
                                   "INDIRECT_REF", "FLOAT_EXPR", "NON_DEPENDENT_EXPR",
                                   "VIEW_CONVERT_EXPR"} \cup CASE_CONVERT ->
                mark_exp_read(store, TREE_OPERAND(store, exp, 0))
           [] store[exp].code = "COMPOUND_EXPR" ->
                mark_exp_read(store, TREE_OPERAND(store, exp, 1))
           [] store[exp].code = "COND_EXPR" ->
                LET s1 == IF TREE_OPERAND(store, exp, 1) # NULL_TREE
                          THEN mark_exp_read(store, TREE_OPERAND(store, exp, 1))
                          ELSE store
                IN  IF TREE_OPERAND(store, exp, 2) # NULL_TREE
                    THEN mark_exp_read(s1, TREE_OPERAND(store, exp, 2))
                    ELSE s1
           [] OTHER -> store

Returned(store, val) == [store |-> store, val |-> val]

convert_from_reference(store, val) ==
    IF store[val].type # "none" /\ TypeRefP(store, val)
    THEN LET t   == ReferredType(store[val].type)
             s1  == build1(store, "INDIRECT_REF", t, val)
             ref == Len(s1)
             s2  == mark_exp_read(s1, val)
         IN  Returned([s2 EXCEPT ![ref].side_effects =
                                    s2[ref].volatile \/ s2[val].side_effects], ref)
    ELSE Returned(store, val)

\* recurse_op of mark_use, as the operand indexes in the order of its loop.
RecurseOps(store, expr) ==
    CASE store[expr].code \in {"COMPONENT_REF", "NON_DEPENDENT_EXPR"} -> <<0>>
      [] store[expr].code = "COMPOUND_EXPR" -> <<1>>
      [] store[expr].code = "COND_EXPR" ->
            IF TREE_OPERAND(store, expr, 1) # NULL_TREE THEN <<1, 2>> ELSE <<2>>
      [] store[expr].code \in {"VIEW_CONVERT_EXPR"} \cup CASE_CONVERT -> <<0>>
      [] OTHER -> <<>>

RECURSIVE mark_use(_, _, _, _, _)
RECURSIVE RecurOperands(_, _, _, _, _, _)

mark_use(store, expr, rvalue_p, read_p, reject_builtin) ==
    IF expr = NULL_TREE \/ error_operand_p(store, expr) THEN Returned(store, expr)
    ELSE IF reject_builtin THEN Returned(store, error_mark_node)
    ELSE
      LET s1 == IF read_p THEN mark_exp_read(store, expr) ELSE store
      IN  CASE REFERENCE_REF_P(s1, expr) ->
                 LET ref == TREE_OPERAND(s1, expr, 0)
                     r   == mark_use(s1, ref, TRUE, TRUE, reject_builtin)
                 IN  IF r.val # ref THEN convert_from_reference(r.store, r.val)
                     ELSE Returned(r.store, expr)
            [] s1[expr].code = "VIEW_CONVERT_EXPR" /\ location_wrapper_p(s1, expr) ->
                 LET op  == TREE_OPERAND(s1, expr, 0)
                     nop == mark_use(s1, op, rvalue_p, read_p, reject_builtin)
                 IN  IF nop.val = error_mark_node THEN Returned(nop.store, error_mark_node)
                     ELSE IF op = nop.val THEN Returned(nop.store, expr)
                     ELSE IF DECL_P(nop.store, nop.val) \/ CONSTANT_CLASS_P(nop.store, nop.val)
                     THEN LET s2 == SetOperand(nop.store, expr, 0, nop.val)
                          IN  Returned(IF rvalue_p
                                       THEN [s2 EXCEPT ![expr].code = "NON_LVALUE_EXPR"]
                                       ELSE s2, expr)
                     ELSE Returned(nop.store, nop.val)
            [] OTHER ->
                 RecurOperands(s1, expr, RecurseOps(s1, expr), rvalue_p, read_p, reject_builtin)

RecurOperands(store, expr, idx, rvalue_p, read_p, reject_builtin) ==
    IF idx = <<>> THEN Returned(store, expr)
    ELSE LET op == mark_use(store, TREE_OPERAND(store, expr, Head(idx)),
                            rvalue_p, read_p, reject_builtin)
         IN  IF op.val = error_mark_node THEN Returned(op.store, error_mark_node)
             ELSE RecurOperands(SetOperand(op.store, expr, Head(idx), op.val), expr,
                                Tail(idx), rvalue_p, read_p, reject_builtin)

mark_rvalue_use(store, e, reject_builtin) == mark_use(store, e, TRUE, TRUE, reject_builtin)

mark_lvalue_use(store, expr) == mark_use(store, expr, FALSE, TRUE, FALSE)

mark_lvalue_use_nonread_as_a_read(store, expr) == mark_use(store, expr, FALSE, TRUE, FALSE)

mark_lvalue_use_nonread(store, expr) == mark_use(store, expr, FALSE, FALSE, FALSE)

RECURSIVE mark_discarded_use(_, _)
mark_discarded_use(store, e) ==
    IF e = NULL_TREE THEN Returned(store, e)
    ELSE
      LET expr == STRIP_ANY_LOCATION_WRAPPER(store, e)
          DiscardOperand(st, i) ==
              LET r == mark_discarded_use(st, TREE_OPERAND(st, expr, i))
              IN  SetOperand(r.store, expr, i, r.val)
      IN  CASE store[expr].code = "COND_EXPR" ->
                 Returned(DiscardOperand(DiscardOperand(store, 2), 1), expr)
            [] store[expr].code = "COMPOUND_EXPR" ->
                 Returned(DiscardOperand(store, 1), expr)
            [] store[expr].code \in {"COMPONENT_REF", "ARRAY_REF", "INDIRECT_REF", "MEMBER_REF"} ->
                 mark_use(store, expr, TRUE, TRUE, FALSE)
            [] OTHER ->
                 IF DECL_P(store, expr) THEN mark_use(store, expr, TRUE, TRUE, FALSE)
                 ELSE Returned(store, expr)

ExprIds == 1..5

NoOperands == <<NULL_TREE, NULL_TREE, NULL_TREE>>

UnaryShapes ==
    [code : {"COMPONENT_REF", "ARRAY_REF", "INDIRECT_REF", "MEMBER_REF", "NOP_EXPR", "ADDR_EXPR"},
     wrapper : {FALSE}]
    \cup [code : {"VIEW_CONVERT_EXPR"}, wrapper : BOOLEAN]

\* The expressions that can be built over the expressions LOWER; the first
\* operand of a COMPOUND_EXPR or COND_EXPR is the variable 2.
Composites(lower) ==
    {[NewExpr(u.code, "val", <<a, NULL_TREE, NULL_TREE>>) EXCEPT !.wrapper = u.wrapper] :
        u \in UnaryShapes, a \in lower}
    \cup {NewExpr("COMPOUND_EXPR", "val", <<2, b, NULL_TREE>>) : b \in lower}
    \cup {NewExpr("COND_EXPR", "val", <<2, b, c>>) : b \in lower \cup {NULL_TREE}, c \in lower}

OperandsOf(e) == {e.ops[i] : i \in 1..3}

NoUse == [op |-> "none", expr |-> NULL_TREE, reject |-> FALSE, val |-> NULL_TREE,
          twin |-> NULL_TREE, before |-> <<>>]

\* error_mark_node, a variable of value or reference type, a second leaf,
\* an expression over them and an expression over that one.
InitUse ==
    /\ \E xtype \in {"val", "ref"}, leaf \in {"PARM_DECL", "INTEGER_CST", "FUNCTION_DECL"},
          inner \in Composites({1, 2, 3}),
          outer \in {c \in Composites({1, 2, 3, 4}) : 4 \in OperandsOf(c)} :
          nodes = <<NewExpr("ERROR_MARK", "error", NoOperands),
                    NewExpr("VAR_DECL", xtype, NoOperands),
                    NewExpr(leaf, "val", NoOperands),
                    inner, outer>>
    /\ decls = NoDecls
    /\ types = NoTypes
    /\ walk = NoWalk
    /\ last = NoUse
    /\ failed = "none"
    /\ ops = 0

\* One call on the expressions as built; the outcome of the call also
\* records what the twin function returns on the same expressions.
Use(op, e, reject, r, twin) ==
    /\ last.op = "none"
    /\ nodes' = r.store
    /\ last' = [op |-> op, expr |-> e, reject |-> reject, val |-> r.val,
                twin |-> twin.val, before |-> nodes]
    /\ UNCHANGED <<decls, types, walk, failed, ops>>

MarkRvalueUse ==
    \E e \in ExprIds \cup {NULL_TREE}, reject \in BOOLEAN :
        Use("mark_rvalue_use", e, reject, mark_rvalue_use(nodes, e, reject),
            mark_rvalue_use(nodes, e, reject))

MarkLvalueUse ==
    \E e \in ExprIds \cup {NULL_TREE} :
        Use("mark_lvalue_use", e, FALSE, mark_lvalue_use(nodes, e),
            mark_lvalue_use_nonread(nodes, e))

MarkLvalueUseNonread ==
    \E e \in ExprIds \cup {NULL_TREE} :
        Use("mark_lvalue_use_nonread", e, FALSE, mark_lvalue_use_nonread(nodes, e),
            mark_lvalue_use(nodes, e))

MarkDiscardedUse ==
    \E e \in ExprIds \cup {NULL_TREE} :
        Use("mark_discarded_use", e, FALSE, mark_discarded_use(nodes, e),
            mark_discarded_use(nodes, e))

NextUse == MarkRvalueUse \/ MarkLvalueUse \/ MarkLvalueUseNonread \/ MarkDiscardedUse

SpecUse == InitUse /\ [][NextUse]_vars

\* The declarations marked read in a store.
ReadDecls(store) == {i \in 1..Len(store) : store[i].read = 1}

IsVariable(store, e) == e # NULL_TREE /\ store[e].code \in {"VAR_DECL", "PARM_DECL"}

RECURSIVE SubExprs(_, _)
\* E and every expression below it.
SubExprs(store, e) ==
    IF e = NULL_TREE THEN {}
    ELSE {e} \cup UNION {SubExprs(store, store[e].ops[i]) : i \in 1..3}

Usable(store, e) == e # NULL_TREE /\ ~error_operand_p(store, e)

\* C18 as stated: with reject_builtin true, mark_rvalue_use returns
\* error_mark_node only for an expression that names a function (whose
\* address could be that of a built-in); every other non-null,
\* non-erroneous expression is returned usable and a variable used is
\* marked read.
C18_RejectsOnlyBuiltins ==
    (/\ last.op = "mark_rvalue_use"
     /\ last.reject
     /\ Usable(last.before, last.expr)
     /\ \A x \in SubExprs(last.before, last.expr) : last.before[x].code # "FUNCTION_DECL")
    => /\ last.val # error_mark_node
       /\ IsVariable(last.before, last.expr) => DECL_READ_P(nodes, last.expr) = 1

LvalueUses == {"mark_lvalue_use", "mark_lvalue_use_nonread"}

NewlyRead == ReadDecls(nodes) \ ReadDecls(last.before)

ReferenceRefs(store, e) == {x \in SubExprs(store, e) : REFERENCE_REF_P(store, x)}

RECURSIVE Discardable(_, _)
\* The expressions the lvalue-to-rvalue conversion of a discarded value
\* applies to, as the declaration of mark_discarded_use lists them.
Discardable(store, e) ==
    /\ e # NULL_TREE
    /\ \/ DECL_P(store, e)
       \/ store[e].code \in {"ARRAY_REF", "COMPONENT_REF", "INDIRECT_REF", "MEMBER_REF"}
       \/ /\ store[e].code = "COND_EXPR"
          /\ Discardable(store, TREE_OPERAND(store, e, 1))
          /\ Discardable(store, TREE_OPERAND(store, e, 2))
       \/ /\ store[e].code = "COMPOUND_EXPR"
          /\ Discardable(store, TREE_OPERAND(store, e, 1))

\* C20 as stated: mark_discarded_use marks what an rvalue mark_use of the
\* expression marks when the expression, its location wrapper stripped, is
\* one of the listed forms, and otherwise returns the expression with
\* nothing marked read.
C20_DiscardedUseMarksIffListed ==
    (last.op = "mark_discarded_use" /\ last.expr # NULL_TREE)
    => LET expr == STRIP_ANY_LOCATION_WRAPPER(last.before, last.expr)
       IN  IF Discardable(last.before, expr)
           THEN ReadDecls(nodes) = ReadDecls(mark_use(last.before, expr, TRUE, TRUE, FALSE).store)
           ELSE /\ NewlyRead = {}
                /\ last.val \in {expr, last.expr}

\* ---------------------------------------------------------------------------
\* mark_exp_read called on its own, any number of times.

ReadThroughCodes ==
    {"ARRAY_REF", "COMPONENT_REF", "MODIFY_EXPR", "REALPART_EXPR", "IMAGPART_EXPR",
     "NOP_EXPR", "CONVERT_EXPR", "ADDR_EXPR", "INDIRECT_REF", "FLOAT_EXPR",
     "NON_DEPENDENT_EXPR", "VIEW_CONVERT_EXPR"}

\* Expressions of one operand, two of which mark_exp_read does not look into.
ReadUnaryCodes == ReadThroughCodes \cup {"MEMBER_REF", "NEGATE_EXPR"}

ReadComposites(lower) ==
    {NewExpr(c, "val", <<a, NULL_TREE, NULL_TREE>>) : c \in ReadUnaryCodes, a \in lower}
    \cup {NewExpr("COMPOUND_EXPR", "val", <<2, b, NULL_TREE>>) : b \in lower}
    \cup {NewExpr("COND_EXPR", "val", <<2, b, c>>) : b \in lower \cup {NULL_TREE}, c \in lower}

NoRead == [op |-> "none", expr |-> NULL_TREE, before |-> <<>>]

InitRead ==
    /\ \E leaf \in {"PARM_DECL", "INTEGER_CST", "FUNCTION_DECL"},
          inner \in ReadComposites({1, 2, 3}),
          outer \in {c \in ReadComposites({1, 2, 3, 4}) : 4 \in OperandsOf(c)} :
          nodes = <<NewExpr("ERROR_MARK", "error", NoOperands),
                    NewExpr("VAR_DECL", "val", NoOperands),
                    NewExpr(leaf, "val", NoOperands),
                    inner, outer>>
    /\ decls = NoDecls
    /\ types = NoTypes
    /\ walk = NoWalk
    /\ last = NoRead
    /\ failed = "none"
    /\ ops = 0

MarkExpRead ==
    \E e \in ExprIds \cup {NULL_TREE} :
        /\ nodes' = mark_exp_read(nodes, e)
        /\ last' = [op |-> "mark_exp_read", expr |-> e, before |-> nodes]
        /\ UNCHANGED <<decls, types, walk, failed, ops>>

NextRead == MarkExpRead

SpecRead == InitRead /\ [][NextRead]_vars

\* The operands mark_exp_read is said to follow from an expression.
ReadEdges(store, e) ==
    CASE store[e].code \in ReadThroughCodes -> {store[e].ops[1]}
      [] store[e].code = "COMPOUND_EXPR" -> {store[e].ops[2]}
      [] store[e].code = "COND_EXPR" -> {store[e].ops[2], store[e].ops[3]}
      [] OTHER -> {}

RECURSIVE ReadClosure(_, _)
\* The least set of expressions that holds SET and the non-null operands
\* followed from its members.
ReadClosure(store, set) ==
    LET step == set \cup (UNION {ReadEdges(store, x) : x \in set} \ {NULL_TREE})
    IN  IF step = set THEN set ELSE ReadClosure(store, step)

ReachedVariables(store, e) ==
    IF e = NULL_TREE THEN {}
    ELSE {d \in ReadClosure(store, {e}) : store[d].code \in {"VAR_DECL", "PARM_DECL"}}

\* C21: mark_exp_read sets DECL_READ_P on exactly the VAR_DECLs and
\* PARM_DECLs reached along the operands it follows, changes nothing else,
\* clears nothing, does nothing for a null expression, and a second call on
\* the same expression changes nothing.
C21_MarkExpReadMarksReachedVariables ==
    last.op = "mark_exp_read"
    => /\ nodes = [i \in 1..Len(last.before) |->
                     IF i \in ReachedVariables(last.before, last.expr)
                     THEN [last.before[i] EXCEPT !.read = 1]
                     ELSE last.before[i]]
       /\ \A i \in 1..Len(nodes) : last.before[i].read = 1 => nodes[i].read = 1
       /\ last.expr = NULL_TREE => nodes = last.before
       /\ mark_exp_read(nodes, last.expr) = nodes

\* mark_exp_read was called on a COND_EXPR whose condition is the variable
\* 2 and whose third operand leads to the parameter 3: 3 is read, 2 is not.
C21_Witness ==
    /\ last.op = "mark_exp_read"
    /\ last.expr = 5
    /\ nodes[5].code = "COND_EXPR"
    /\ nodes[5].ops = <<2, NULL_TREE, 4>>
    /\ nodes[4].code = "MODIFY_EXPR"
    /\ nodes[4].ops[1] = 3
    /\ nodes[3].code = "PARM_DECL"
    /\ last.before[3].read = 0
    /\ nodes[3].read = 1
    /\ nodes[2].read = 0

\* ---------------------------------------------------------------------------
\* convert_from_reference called on its own.

MaxExprs == 5

ExprTypes == {"none", "val", "ref", "refref"}

NoConvert == [op |-> "none", expr |-> NULL_TREE, val |-> NULL_TREE, before |-> <<>>]

\* error_mark_node, a variable and an expression over the variable, each of
\* any type, volatile or not, the expression with or without side effects.
InitConvert ==
    /\ \E xtype \in ExprTypes, xvol \in BOOLEAN,
          code \in {"NOP_EXPR", "CALL_EXPR"}, etype \in ExprTypes,
          evol \in BOOLEAN, eside \in BOOLEAN :
          nodes = <<NewExpr("ERROR_MARK", "error", NoOperands),
                    [NewExpr("VAR_DECL", xtype, NoOperands) EXCEPT !.volatile = xvol],
                    [NewExpr(code, etype, <<2, NULL_TREE, NULL_TREE>>)
                        EXCEPT !.volatile = evol, !.side_effects = eside]>>
    /\ decls = NoDecls
    /\ types = NoTypes
    /\ walk = NoWalk
    /\ last = NoConvert
    /\ failed = "none"
    /\ ops = 0

ConvertFromReference ==
    \E e \in 1..MaxExprs :
        /\ e <= Len(nodes)
        /\ Len(nodes) < MaxExprs
        /\ LET r == convert_from_reference(nodes, e)
           IN  /\ nodes' = r.store
               /\ last' = [op |-> "convert_from_reference", expr |-> e, val |-> r.val,
                           before |-> nodes]
        /\ UNCHANGED <<decls, types, walk, failed, ops>>

NextConvert == ConvertFromReference

SpecConvert == InitConvert /\ [][NextConvert]_vars

\* C22 as stated: on a value of reference type the result is a new
\* INDIRECT_REF of the value, of the referred-to type, with side effects
\* iff it is volatile or the value has side effects, and the value is
\* marked read; otherwise the value itself comes back and nothing changes;
\* either way the type of the result is not a reference type.
C22_ConvertFromReferenceBashesAllTheWay ==
    last.op = "convert_from_reference"
    => LET val == last.expr
           was == last.before
       IN  /\ was[val].type \in {"ref", "refref"}
              => /\ last.val = Len(was) + 1
                 /\ Len(nodes) = Len(was) + 1
                 /\ nodes[last.val].code = "INDIRECT_REF"
                 /\ nodes[last.val].ops[1] = val
                 /\ nodes[last.val].type = ReferredType(was[val].type)
                 /\ nodes[last.val].side_effects
                       = (nodes[last.val].volatile \/ was[val].side_effects)
                 /\ SubSeq(nodes, 1, Len(was)) = mark_exp_read(was, val)
           /\ was[val].type \notin {"ref", "refref"}
              => /\ last.val = val
                 /\ nodes = was
           /\ ~TypeRefP(nodes, last.val)

\* ---------------------------------------------------------------------------
\* get_fndecl_from_callee.  Types gain "ptr", a pointer type.

INDIRECT_TYPE_P(type) == type \in {"ptr", "ref", "refref"}

\* A conversion that changes nothing of the value: both types are pointers
\* or references, or both are the same.
tree_nop_conversion(store, e) ==
    /\ store[e].code \in {"NOP_EXPR", "CONVERT_EXPR", "NON_LVALUE_EXPR"}
    /\ store[e].ops[1] # NULL_TREE
    /\ \/ store[e].type = store[store[e].ops[1]].type
       \/ INDIRECT_TYPE_P(store[e].type) /\ INDIRECT_TYPE_P(store[store[e].ops[1]].type)

RECURSIVE STRIP_NOPS(_, _)
STRIP_NOPS(store, e) ==
    IF tree_nop_conversion(store, e) THEN STRIP_NOPS(store, store[e].ops[1]) ELSE e

get_fndecl_from_callee_whatever_its_type(store, fn) ==
    IF fn = NULL_TREE THEN fn
    ELSE IF store[fn].code = "FUNCTION_DECL" THEN fn
    ELSE LET stripped == STRIP_NOPS(store, fn)
             callee == IF store[stripped].code \in {"ADDR_EXPR", "FDESC_EXPR"}
                       THEN TREE_OPERAND(store, stripped, 0)
                       ELSE stripped
         IN  IF store[callee].code = "FUNCTION_DECL" THEN callee ELSE NULL_TREE

get_fndecl_from_callee(store, fn) ==
    IF fn = NULL_TREE THEN fn
    ELSE IF store[fn].code = "FUNCTION_DECL" THEN fn
    ELSE IF store[fn].type = "none" \/ ~INDIRECT_TYPE_P(store[fn].type) THEN NULL_TREE
    ELSE LET stripped == STRIP_NOPS(store, fn)
             callee == IF store[stripped].code \in {"ADDR_EXPR", "FDESC_EXPR"}
                       THEN TREE_OPERAND(store, stripped, 0)
                       ELSE stripped
         IN  IF store[callee].code = "FUNCTION_DECL" THEN callee ELSE NULL_TREE

CalleeIds == 1..6

CalleeCodes == {"ADDR_EXPR", "FDESC_EXPR", "NOP_EXPR", "INDIRECT_REF"}

NoCallee == [op |-> "none", expr |-> NULL_TREE, val |-> NULL_TREE]

\* error_mark_node, a function, a variable, an expression over one of the
\* two and two expressions each over the one before.
InitCallee ==
    /\ \E ptype \in {"ptr", "val", "none"},
          c4 \in CalleeCodes, o4 \in {2, 3}, t4 \in {"ptr", "ref", "val", "none"},
          c5 \in CalleeCodes, t5 \in {"ptr", "val", "none"},
          c6 \in CalleeCodes, t6 \in {"ptr", "val", "none"} :
          nodes = <<NewExpr("ERROR_MARK", "error", NoOperands),
                    NewExpr("FUNCTION_DECL", "val", NoOperands),
                    NewExpr("VAR_DECL", ptype, NoOperands),
                    NewExpr(c4, t4, <<o4, NULL_TREE, NULL_TREE>>),
                    NewExpr(c5, t5, <<4, NULL_TREE, NULL_TREE>>),
                    NewExpr(c6, t6, <<5, NULL_TREE, NULL_TREE>>)>>
    /\ decls = NoDecls
    /\ types = NoTypes
    /\ walk = NoWalk
    /\ last = NoCallee
    /\ failed = "none"
    /\ ops = 0

GetFndeclFromCallee ==
    \E fn \in CalleeIds \cup {NULL_TREE} :
        /\ last.op = "none"
        /\ last' = [op |-> "get_fndecl_from_callee", expr |-> fn,
                    val |-> get_fndecl_from_callee(nodes, fn)]
        /\ UNCHANGED <<nodes, decls, types, walk, failed, ops>>

NextCallee == GetFndeclFromCallee

SpecCallee == InitCallee /\ [][NextCallee]_vars

RECURSIVE Below(_, _)
\* The expression K operands below E.
Below(e, k) == IF k = 0 THEN e ELSE Below(nodes[e].ops[1], k - 1)

\* E is K no-op conversions around an ADDR_EXPR or FDESC_EXPR of the
\* function F.
AddressOfFunctionUnder(e, k, f) ==
    /\ \A j \in 0..(k - 1) : tree_nop_conversion(nodes, Below(e, j))
    /\ nodes[Below(e, k)].code \in {"ADDR_EXPR", "FDESC_EXPR"}
    /\ nodes[Below(e, k)].ops[1] = f
    /\ nodes[f].code = "FUNCTION_DECL"

\* C23: the result is null or a FUNCTION_DECL; it is fn itself for a
\* FUNCTION_DECL; otherwise it is a function exactly when fn has pointer or
\* reference type and is, under no-op conversions, one ADDR_EXPR or
\* FDESC_EXPR of that function; it is null for null and for everything else.
C23_CalleeIsFunctionOrNull ==
    last.op = "get_fndecl_from_callee"
    => LET fn == last.expr
       IN  /\ last.val = NULL_TREE \/ nodes[last.val].code = "FUNCTION_DECL"
           /\ fn = NULL_TREE => last.val = NULL_TREE
           /\ (fn # NULL_TREE /\ nodes[fn].code = "FUNCTION_DECL") => last.val = fn
           /\ (fn # NULL_TREE /\ nodes[fn].code # "FUNCTION_DECL")
              => \A f \in CalleeIds :
                    (last.val = f)
                    <=> /\ INDIRECT_TYPE_P(nodes[fn].type)
                        /\ \E k \in 0..2 : AddressOfFunctionUnder(fn, k, f)

\* The callee is a no-op conversion, of pointer type, of the address of the
\* function 2, and the function is what came back.
C23_Witness ==
    /\ last.op = "get_fndecl_from_callee"
    /\ last.expr = 5
    /\ nodes[5].code = "NOP_EXPR"
    /\ nodes[5].type = "ptr"
    /\ nodes[4].code = "ADDR_EXPR"
    /\ nodes[4].ops[1] = 2
    /\ last.val = 2

\* ---------------------------------------------------------------------------
\* The identifier-kind predicates against the values their comments name.

\* The kind codes the comment of each predicate names.
DocumentedKinds ==
    [IDENTIFIER_KEYWORD_P |-> {1}, IDENTIFIER_CDTOR_P |-> {2, 3},
     IDENTIFIER_CTOR_P |-> {2}, IDENTIFIER_DTOR_P |-> {3},
     IDENTIFIER_ANY_OP_P |-> {4, 5, 6, 7}, IDENTIFIER_OVL_OP_P |-> {4, 5},
     IDENTIFIER_ASSIGN_OP_P |-> {5}, IDENTIFIER_CONV_OP_P |-> {7}]

KindPredicate(name, n) ==
    CASE name = "IDENTIFIER_KEYWORD_P" -> IDENTIFIER_KEYWORD_P(n)
      [] name = "IDENTIFIER_CDTOR_P" -> IDENTIFIER_CDTOR_P(n)
      [] name = "IDENTIFIER_CTOR_P" -> IDENTIFIER_CTOR_P(n)
      [] name = "IDENTIFIER_DTOR_P" -> IDENTIFIER_DTOR_P(n)
      [] name = "IDENTIFIER_ANY_OP_P" -> IDENTIFIER_ANY_OP_P(n)
      [] name = "IDENTIFIER_OVL_OP_P" -> IDENTIFIER_OVL_OP_P(n)
      [] name = "IDENTIFIER_ASSIGN_OP_P" -> IDENTIFIER_ASSIGN_OP_P(n)
      [] name = "IDENTIFIER_CONV_OP_P" -> IDENTIFIER_CONV_OP_P(n)

KindsByDocumentation ==
    \A n \in NodeIds, name \in DOMAIN DocumentedKinds :
        (KindPredicate(name, n) = 1) <=> (IdentifierKind(n) \in DocumentedKinds[name])

\* C24 as stated: every kind predicate is true for exactly the kind codes
\* its comment names, and a write of IDENTIFIER_MARKED or
\* IDENTIFIER_VIRTUAL_P leaves every kind code as it was.
C24_KindPredicatesByDocumentation ==
    [][/\ KindsByDocumentation
       /\ last'.op \in {"IDENTIFIER_MARKED", "IDENTIFIER_VIRTUAL_P"}
             => \A n \in NodeIds : IdentifierKind(n)' = IdentifierKind(n)]_vars

\* ---------------------------------------------------------------------------
\* LANG_DECL_HAS_MIN against the checks of DECL_TEMPLATE_INFO and DECL_ACCESS.

\* C25 as stated: a declaration of a kind for which LANG_DECL_HAS_MIN is
\* true, with its language-specific data in place, passes the checks of
\* both DECL_TEMPLATE_INFO and DECL_ACCESS; template_info_decl_check lets
\* through exactly those kinds and fails for every other; and an access
\* made through either accessor on such a declaration succeeded.
C25_HasMinMeansTemplateInfoAndAccess ==
    /\ \A d \in DeclIds :
          /\ (LANG_DECL_HAS_MIN(d) /\ ~DECL_LANG_SPECIFIC(d).null)
                => /\ CheckStatus(DECL_TEMPLATE_INFO, d) = "ok"
                   /\ CheckStatus(DECL_ACCESS, d) = "ok"
          /\ (TEMPLATE_INFO_DECL_CHECK(d) # "tree_check_failed") <=> LANG_DECL_HAS_MIN(d)
    /\ (/\ last.op \in {"DECL_TEMPLATE_INFO", "DECL_ACCESS"}
        /\ LANG_DECL_HAS_MIN(last.node)
        /\ ~DECL_LANG_SPECIFIC(last.node).null)
          => last.status = "ok"

\* ---------------------------------------------------------------------
\* Conversion to void (rust-tree.cc: convert_to_void, maybe_warn_nodiscard)
\* ---------------------------------------------------------------------

void_node == 2

ImplConvVoid ==
    {"ICV_CAST", "ICV_SECOND_OF_COND", "ICV_THIRD_OF_COND", "ICV_RIGHT_OF_COMMA",
     "ICV_LEFT_OF_COMMA", "ICV_STATEMENT", "ICV_THIRD_IN_FOR"}

\* One diagnostic: the option it is emitted under ("0" for none), the
\* expression it is about and the kind of conversion that was under way.
warning_at(opt, expr, implicit) == [opt |-> opt, expr |-> expr, implicit |-> implicit]

CALL_EXPR_FN(store, call) == TREE_OPERAND(store, call, 1)

TARGET_EXPR_INITIAL(store, e) == TREE_OPERAND(store, e, 1)

\* The diagnostics maybe_warn_nodiscard emits.
maybe_warn_nodiscard_whatever_the_conversion(store, expr, implicit) ==
    LET call == IF store[expr].code = "TARGET_EXPR"
                THEN TARGET_EXPR_INITIAL(store, expr) ELSE expr
        callee == CALL_EXPR_FN(store, call)
    IN  IF callee = NULL_TREE THEN {}
        ELSE LET fn == get_fndecl_from_callee(store, callee)
             IN  IF fn # NULL_TREE /\ "nodiscard" \in store[fn].attributes
                 THEN {warning_at("OPT_Wunused_result", call, implicit)}
                 ELSE IF "nodiscard" \in store[callee].rettype_attributes
                 THEN {warning_at("OPT_Wunused_result", call, implicit)}
                 ELSE {}

maybe_warn_nodiscard(store, expr, implicit) ==
    LET call == IF store[expr].code = "TARGET_EXPR"
                THEN TARGET_EXPR_INITIAL(store, expr) ELSE expr
        callee == CALL_EXPR_FN(store, call)
    IN  IF callee = NULL_TREE THEN {}
        ELSE LET fn == get_fndecl_from_callee(store, callee)
             IN  IF /\ implicit # "ICV_CAST"
                    /\ fn # NULL_TREE
                    /\ "nodiscard" \in store[fn].attributes
                 THEN {warning_at("OPT_Wunused_result", call, implicit)}
                 ELSE IF /\ implicit # "ICV_CAST"
                         /\ "nodiscard" \in store[callee].rettype_attributes
                 THEN {warning_at("OPT_Wunused_result", call, implicit)}
                 ELSE {}

\* build3 and build2: a new node whose TREE_SIDE_EFFECTS is that of its
\* operands.
build3(store, code, type, arg0, arg1, arg2) ==
    Append(store, [NewExpr(code, type, <<arg0, arg1, arg2>>)
                      EXCEPT !.side_effects =
                          \E a \in {arg0, arg1, arg2} \ {NULL_TREE} : store[a].side_effects])

build2(store, code, type, arg0, arg1) == build3(store, code, type, arg0, arg1, NULL_TREE)

\* What one conversion leaves: the store, the expression returned, the
\* diagnostics emitted and the conversions made, each as <<expr, implicit>>.
Converted(store, val, warnings, calls) ==
    [store |-> store, val |-> val, warnings |-> warnings, calls |-> calls]

\* The end of convert_to_void: an expression without side effects is
\* replaced by void_node.
ConvertedExpr(store, val, warnings, calls) ==
    Converted(store, IF ~store[val].side_effects THEN void_node ELSE val, warnings, calls)

RECURSIVE convert_to_void(_, _, _, _)

\* case COND_EXPR, once both operands are converted (R1 and R2).
convert_to_void_cond_built(s1, expr, called, r1, r2) ==
    ConvertedExpr(build3(r2.store, "COND_EXPR", r2.store[r2.val].type,
                         TREE_OPERAND(s1, expr, 0), r1.val, r2.val),
                  Len(r2.store) + 1,
                  r1.warnings \cup r2.warnings,
                  called \cup r1.calls \cup r2.calls)

\* case COND_EXPR, once the second operand is converted (R1).
convert_to_void_cond_third(s1, expr, called, imp2, warn_unused_value, r1) ==
    convert_to_void_cond_built(s1, expr, called, r1,
        convert_to_void(r1.store, TREE_OPERAND(s1, expr, 2), imp2, warn_unused_value))

\* case COND_EXPR.
convert_to_void_cond(s1, expr, called, implicit, warn_unused_value) ==
    LET op1 == TREE_OPERAND(s1, expr, 1)
        op2 == TREE_OPERAND(s1, expr, 2)
        side_effects == \/ op1 # NULL_TREE /\ s1[op1].side_effects
                        \/ s1[op2].side_effects
        plain == implicit # "ICV_CAST" /\ ~side_effects
    IN  convert_to_void_cond_third(s1, expr, called,
            IF plain THEN "ICV_THIRD_OF_COND" ELSE "ICV_CAST", warn_unused_value,
            IF op1 # NULL_TREE
            THEN convert_to_void(s1, op1,
                     IF plain THEN "ICV_SECOND_OF_COND" ELSE "ICV_CAST",
                     warn_unused_value)
            ELSE Converted(s1, NULL_TREE, {}, {}))

\* case COMPOUND_EXPR, once the right operand is converted (R).
convert_to_void_compound_built(s1, expr, called, r) ==
    IF r.val # TREE_OPERAND(s1, expr, 1)
    THEN ConvertedExpr(build2(r.store, "COMPOUND_EXPR", r.store[r.val].type,
                              TREE_OPERAND(s1, expr, 0), r.val),
                       Len(r.store) + 1, r.warnings, called \cup r.calls)
    ELSE ConvertedExpr(r.store, expr, r.warnings, called \cup r.calls)

\* case COMPOUND_EXPR.
convert_to_void_compound(s1, expr, called, implicit, warn_unused_value) ==
    convert_to_void_compound_built(s1, expr, called,
        convert_to_void(s1, TREE_OPERAND(s1, expr, 1),
            IF implicit # "ICV_CAST" /\ ~s1[expr].no_warning
            THEN "ICV_RIGHT_OF_COMMA" ELSE "ICV_CAST",
            warn_unused_value))

\* case INDIRECT_REF.
convert_to_void_indirect_ref(s1, expr, called, implicit, warn_unused_value) ==
    LET operand == TREE_OPERAND(s1, expr, 0)
        is_reference == TypeRefP(s1, operand)
        is_volatile == s1[expr].type_volatile
        is_complete == s1[expr].type_complete
        no_access ==
            IF \/ is_volatile /\ ~is_complete
               \/ is_volatile /\ is_reference
               \/ is_volatile /\ s1[expr].type_addressable
            THEN {warning_at("0", expr, implicit)} ELSE {}
        unused ==
            IF /\ warn_unused_value
               /\ implicit # "ICV_CAST"
               /\ ~s1[expr].no_warning
               /\ ~is_reference
            THEN {warning_at("OPT_Wunused_value", expr, implicit)} ELSE {}
        nodiscard ==
            IF s1[operand].code = "CALL_EXPR"
            THEN maybe_warn_nodiscard(s1, operand, implicit) ELSE {}
    IN  IF \/ is_reference
           \/ ~is_volatile
           \/ ~is_complete
           \/ s1[expr].type_addressable
        THEN ConvertedExpr(s1, operand, no_access \cup unused \cup nodiscard, called)
        ELSE ConvertedExpr(s1, expr, no_access, called)

\* convert_to_void from the test of TREE_TYPE (expr) on: S1 is the store
\* and EXPR the expression after mark_discarded_use and mark_exp_read.
convert_to_void_switch(s1, expr, called, implicit, warn_unused_value) ==
    IF s1[expr].type = "none" THEN Converted(s1, expr, {}, called)
    ELSE IF s1[expr].type = "void" THEN Converted(s1, expr, {}, called)
    ELSE
      CASE s1[expr].code = "COND_EXPR" ->
             convert_to_void_cond(s1, expr, called, implicit, warn_unused_value)
        [] s1[expr].code = "COMPOUND_EXPR" ->
             convert_to_void_compound(s1, expr, called, implicit, warn_unused_value)
        [] s1[expr].code \in {"NON_LVALUE_EXPR", "NOP_EXPR"} ->
             ConvertedExpr(s1, expr, {}, called)
        [] s1[expr].code = "CALL_EXPR" ->
             ConvertedExpr(s1, expr, maybe_warn_nodiscard(s1, expr, implicit), called)
        [] s1[expr].code = "INDIRECT_REF" ->
             convert_to_void_indirect_ref(s1, expr, called, implicit, warn_unused_value)
        [] s1[expr].code = "VAR_DECL" ->
             ConvertedExpr(s1, expr,
                           IF s1[expr].type_volatile /\ ~s1[expr].type_complete
                           THEN {warning_at("0", expr, implicit)} ELSE {},
                           called)
        [] OTHER -> ConvertedExpr(s1, expr, {}, called)

\* convert_to_void once mark_discarded_use has run: under ICV_CAST the
\* expression it returned is marked as read.
convert_to_void_discarded(discarded, called, implicit, warn_unused_value) ==
    convert_to_void_switch(
        IF implicit = "ICV_CAST"
        THEN mark_exp_read(discarded.store, discarded.val)
        ELSE discarded.store,
        discarded.val, called, implicit, warn_unused_value)

convert_to_void(store, e, implicit, warn_unused_value) ==
    IF e = error_mark_node \/ store[e].type = "error"
    THEN Converted(store, error_mark_node, {}, {<<e, implicit>>})
    ELSE convert_to_void_discarded(mark_discarded_use(store, e), {<<e, implicit>>},
                                   implicit, warn_unused_value)

\* The expressions of one function body: the variable 3, the function 4,
\* its address 5, the call 6 through that address, the indirection 7, and
\* the conditional or comma expressions 8 and 9 over them.
VoidVariables ==
    {<<"val", FALSE, TRUE>>, <<"ref", FALSE, TRUE>>, <<"error", FALSE, TRUE>>}

VoidAttributes == {<<{}, {}>>, <<{"nodiscard"}, {}>>, <<{}, {"nodiscard"}>>}

VoidIndirections ==
    {<<3, q>> : q \in {<<FALSE, TRUE, FALSE, FALSE>>, <<FALSE, TRUE, FALSE, TRUE>>,
                       <<TRUE, FALSE, FALSE, FALSE>>}}
      \cup {<<6, <<FALSE, TRUE, FALSE, FALSE>>>>}

VoidOuters ==
    {<<"COND_EXPR", NULL_TREE, 6, FALSE>>, <<"COND_EXPR", 7, 6, FALSE>>,
     <<"COND_EXPR", 7, 3, FALSE>>, <<"COMPOUND_EXPR", 6, NULL_TREE, FALSE>>,
     <<"COMPOUND_EXPR", 7, NULL_TREE, FALSE>>, <<"COMPOUND_EXPR", 7, NULL_TREE, TRUE>>}

VoidNested == {<<"COMPOUND_EXPR", 8, NULL_TREE>>, <<"COND_EXPR", 7, 8>>}

\* The expressions a statement converts: all but the function and its address.
VoidOperands == {1, 3, 6, 7, 8, 9}

NoVoid == [op |-> "none", expr |-> NULL_TREE, implicit |-> "ICV_CAST", before |-> <<>>,
           val |-> NULL_TREE, warnings |-> {}, calls |-> {}]

InitVoid ==
    /\ \E v \in VoidVariables, a \in VoidAttributes, i \in VoidIndirections,
          o \in VoidOuters, n \in VoidNested :
         LET s3 == <<NewExpr("ERROR_MARK", "error", NoOperands),
                     NewExpr("VOID_CST", "void", NoOperands),
                     [NewExpr("VAR_DECL", v[1], NoOperands)
                        EXCEPT !.type_volatile = v[2], !.type_complete = v[3],
                               !.volatile = v[2], !.side_effects = v[2]]>>
             s6 == s3 \o
                   <<[NewExpr("FUNCTION_DECL", "val", NoOperands) EXCEPT !.attributes = a[1]],
                     [NewExpr("ADDR_EXPR", "ptr", <<4, NULL_TREE, NULL_TREE>>)
                        EXCEPT !.rettype_attributes = a[2]],
                     [NewExpr("CALL_EXPR", "val", <<NULL_TREE, 5, NULL_TREE>>)
                        EXCEPT !.side_effects = TRUE]>>
             s7 == Append(s6,
                     [NewExpr("INDIRECT_REF", "val", <<i[1], NULL_TREE, NULL_TREE>>)
                        EXCEPT !.type_volatile = i[2][1], !.type_complete = i[2][2],
                               !.type_addressable = i[2][3], !.no_warning = i[2][4],
                               !.volatile = i[2][1],
                               !.side_effects = i[2][1] \/ s6[i[1]].side_effects])
             s8 == Append(s7, [build3(s7, o[1], "val", 3, o[2], o[3])[8]
                                 EXCEPT !.no_warning = o[4]])
         IN  nodes = build3(s8, n[1], "val", 3, n[2], n[3])
    /\ decls = NoDecls
    /\ types = NoTypes
    /\ walk \in [warn_unused_value : BOOLEAN]
    /\ last = NoVoid
    /\ failed = FALSE
    /\ ops = 0

\* convert_to_void (expr, implicit), once per function body.
ConvertToVoid ==
    /\ last.op = "none"
    /\ \E e \in VoidOperands, implicit \in ImplConvVoid :
         LET r == convert_to_void(nodes, e, implicit, walk.warn_unused_value)
         IN  /\ nodes' = r.store
             /\ last' = [op |-> "convert_to_void", expr |-> e, implicit |-> implicit,
                         before |-> nodes, val |-> r.val, warnings |-> r.warnings,
                         calls |-> r.calls]
    /\ UNCHANGED <<decls, types, walk, failed, ops>>

NextVoid == ConvertToVoid

SpecVoid == InitVoid /\ [][NextVoid]_vars

ExplicitCast == last.op = "convert_to_void" /\ last.implicit = "ICV_CAST"

UnusedDiagnostics == {w \in last.warnings : w.opt \in {"OPT_Wunused_result", "OPT_Wunused_value"}}

CastAtEveryDepth == \A c \in last.calls : c[2] = "ICV_CAST"

MarkedRead == \A v \in ReachedVariables(last.before, last.expr) : nodes[v].read = 1

\* C26 as stated: convert_to_void (expr, ICV_CAST) converts every operand
\* it recurses into with ICV_CAST, emits neither the nodiscard warning nor
\* "value computed is not used", and marks expr as read.
C26_CastSuppressesAndMarksRead ==
    ExplicitCast => CastAtEveryDepth /\ UnusedDiagnostics = {} /\ MarkedRead

ErroneousExpr(store, e) == e = error_mark_node \/ store[e].type = "error"

\* C26, amended: under ICV_CAST every conversion of an operand is made
\* with ICV_CAST and neither the nodiscard warning nor "value computed is
\* not used" is emitted; expr is marked as read unless it is erroneous, and
\* an erroneous expr yields error_mark_node with nothing marked.
C26_CastSuppressesAndMarksReadUnlessErroneous ==
    ExplicitCast
    => /\ CastAtEveryDepth
       /\ UnusedDiagnostics = {}
       /\ IF ErroneousExpr(last.before, last.expr)
          THEN nodes = last.before /\ last.val = error_mark_node
          ELSE MarkedRead

\* The nested expression 9 was cast to void with -Wunused-value on: the
\* call to a nodiscard function and the indirection were converted two
\* levels down, and the variable 3 became read.
C26_Witness ==
    /\ ExplicitCast
    /\ last.expr = 9
    /\ walk.warn_unused_value
    /\ "nodiscard" \in nodes[4].attributes
    /\ {6, 7} \subseteq {c[1] : c \in last.calls}
    /\ ~nodes[7].no_warning
    /\ last.before[3].read = 0
    /\ nodes[3].read = 1

\* ---------------------------------------------------------------------
\* The members of one class as they are declared and cloned
\* ---------------------------------------------------------------------

\* Most declarations one class gets.
MaxMembers == 5

TYPE_FIELDS == types[1].fields

\* The names a member function can be declared with.
DeclaredNames == {ctor_identifier, dtor_identifier, ordinary_identifier}

\* The name of a clone of a function named NAME.
CloneName(name) ==
    IF name = ctor_identifier THEN complete_ctor_identifier ELSE base_dtor_identifier

\* A member function is declared: it goes to the front of the chain.
AddMember ==
    /\ walk.pc = "idle"
    /\ Len(decls) < MaxMembers
    /\ \E name \in DeclaredNames :
         decls' = Append(decls, [NewDecl("FUNCTION_DECL", lang_decl("lds_fn"))
                                    EXCEPT !.name = name, !.chain = TYPE_FIELDS])
    /\ types' = <<[fields |-> Len(decls) + 1]>>
    /\ UNCHANGED <<nodes, walk, last, failed, ops>>

\* A clone of the maybe-in-charge constructor or destructor FN is made: it
\* records FN as the function it was cloned from and is chained right
\* after FN.
BuildClone ==
    /\ walk.pc = "idle"
    /\ Len(decls) < MaxMembers
    /\ \E fn \in DOMAIN decls :
         /\ DECL_MAYBE_IN_CHARGE_CDTOR_P(fn)
         /\ decls' = Append([decls EXCEPT ![fn].chain = Len(decls) + 1],
                            [NewDecl("FUNCTION_DECL",
                                     [lang_decl("lds_fn") EXCEPT !.u5 = fn])
                                EXCEPT !.name = CloneName(DECL_NAME(fn)),
                                       !.chain = DECL_CHAIN(fn)])
    /\ UNCHANGED <<nodes, types, walk, last, failed, ops>>

InitMembers ==
    /\ nodes = PredefinedIdentifiers
    /\ decls = NoDecls
    /\ types = <<[fields |-> NULL_TREE]>>
    /\ walk = NoWalk
    /\ last = NoDeclAccess
    /\ failed = "none"
    /\ ops = 0

NextMembers ==
    AddMember \/ BuildClone \/ ForEachCloneEnter \/ ForEachCloneTest \/ ForEachCloneBody

SpecMembers == InitMembers /\ [][NextMembers]_vars

\* DECL_CLONED_FUNCTION (clone), read where its tree check passes.
ClonedFrom(clone) == DECL_LANG_SPECIFIC(clone).u5

\* The declarations FOR_EACH_CLONE has handed or is handing to its body.
Visited == SeqRange(walk.visited) \cup (IF walk.pc = "body" THEN {walk.clone} ELSE {})

\* C27: every declaration FOR_EACH_CLONE (clone, fn) visits is a
\* FUNCTION_DECL that is no maybe-in-charge constructor or destructor and
\* whose DECL_CLONED_FUNCTION is fn.
C27_VisitedClonesBelongToFn ==
    \A clone \in Visited :
        /\ TREE_CODE(clone) = "FUNCTION_DECL"
        /\ ~DECL_MAYBE_IN_CHARGE_CDTOR_P(clone)
        /\ ClonedFrom(clone) = walk.fn

\* The walk over a constructor's clones visited its one clone and stopped
\* at the destructor that follows, which has a clone of its own next on
\* the chain.
C27_Witness ==
    /\ walk.pc = "done"
    /\ Len(walk.visited) = 1
    /\ walk.clone # NULL_TREE
    /\ DECL_MAYBE_IN_CHARGE_CDTOR_P(walk.clone)
    /\ DECL_CHAIN(walk.clone) # NULL_TREE
    /\ DECL_CLONED_FUNCTION_P(DECL_CHAIN(walk.clone))
    /\ ClonedFrom(DECL_CHAIN(walk.clone)) = walk.clone

================================================================
